---- MODULE Spec2Model ----
(***************************************************************************)
(* claude-watch: the session store (one JSON file per session, written by  *)
(* temp file + rename), the hook script that maps Claude Code lifecycle    *)
(* events onto session records, and the dashboard's store API.             *)
(*                                                                         *)
(* Four specifications share the state:                                    *)
(*   Spec       the hook script, one whole handler per step                *)
(*   SpecStore  the dashboard's store API (sessions-json.ts), one call     *)
(*              per step                                                   *)
(*   SpecFS1    the same code at system-call granularity: one writer       *)
(*              process and a reader                                       *)
(*   SpecFS     at system-call granularity: two writer processes           *)
(***************************************************************************)
EXTENDS Integers, Sequences, FiniteSets, TLC

\* ------------------------------------------------------------------ bounds
\* Date.now() ranges over 0..MaxClock
MaxClock == 1

\* --------------------------------------------------------------- constants
SCHEMA_VERSION == 1

\* JS null; a value no string of the model takes
Null == "NULL"
\* JS undefined: an optional property that is not given
Undefined == "UNDEFINED"

SessionIds == {"s1", "s2"}
\* what getClaudePid() can return; 0 = not found
Pids == {0, 1, 2}
Cwds == {"/a"}
\* what `tmux display-message` can print for the pane / the window
TmuxTargets == {"main:0.1"}
WindowNames == {"vim"}

VARIABLES
    fs,     \* the sessions directory: file name -> file content (a token sequence)
    now,    \* the wall clock, Date.now()
    ev,     \* the operation that ran last and its inputs
    proc,   \* system-call level: each process's operation, position and locals
    obs,    \* system-call level: what the reader read last
    hist    \* system-call level: the last completed write, and whether a delete
            \* has completed since a record was last created

vars == <<fs, now, ev, proc, obs, hist>>

\* ------------------------------------------------------------ JSON text
\* A JSON text is a sequence of tokens. A number or null takes one token, a
\* string three (quote, characters, quote), so that texts of different
\* records differ in length as they do on disk.
Fields == <<"v", "id", "pid", "cwd", "tmux_target", "window_name", "state",
            "current_action", "prompt_text", "last_update">>

NumberFields == {"v", "pid", "last_update"}

\* the numbers a record holds: clock values up to the one after the last
\* stored stamp, process ids, the schema version
Numbers == (0 .. MaxClock + 1) \cup Pids \cup {SCHEMA_VERSION}

FieldNames == {Fields[k] : k \in 1 .. Len(Fields)}

\* the text of a key and of a number
KeyTokens == [f \in FieldNames |-> "\"" \o f \o "\":"]
NumberTokens == [n \in Numbers |-> ToString(n)]

KeyToken(f) == KeyTokens[f]

ValueTokens(f, x) ==
    IF f \in NumberFields THEN <<NumberTokens[x]>>
    ELSE IF x = Null THEN <<"null">>
    ELSE <<"\"", x, "\"">>

RECURSIVE StringifyFrom(_, _)
StringifyFrom(session, k) ==
    IF k > Len(Fields) THEN <<"}">>
    ELSE <<KeyToken(Fields[k])>> \o ValueTokens(Fields[k], session[Fields[k]])
         \o StringifyFrom(session, k + 1)

\* JSON.stringify(session, null, 2)
JSONstringify(session) == <<"{">> \o StringifyFrom(session, 1)

\* what JSON.parse throwing is modelled as
ParseError == [error |-> "SyntaxError"]

IsNumberToken(tok) == \E n \in Numbers : NumberTokens[n] = tok

NumberOf(tok) == CHOOSE n \in Numbers : NumberTokens[n] = tok

RECURSIVE ParseFrom(_, _, _, _)
ParseFrom(text, i, k, acc) ==
    IF k > Len(Fields)
    THEN IF i = Len(text) /\ text[i] = "}" THEN acc ELSE ParseError
    ELSE IF i + 1 > Len(text) \/ text[i] # KeyToken(Fields[k]) THEN ParseError
    ELSE IF Fields[k] \in NumberFields
         THEN IF IsNumberToken(text[i + 1])
              THEN ParseFrom(text, i + 2, k + 1,
                             acc @@ (Fields[k] :> NumberOf(text[i + 1])))
              ELSE ParseError
    ELSE IF text[i + 1] = "null"
         THEN ParseFrom(text, i + 2, k + 1, acc @@ (Fields[k] :> Null))
    ELSE IF i + 3 <= Len(text) /\ text[i + 1] = "\"" /\ text[i + 3] = "\""
         THEN ParseFrom(text, i + 4, k + 1, acc @@ (Fields[k] :> text[i + 2]))
    ELSE ParseError

\* JSON.parse(data) as Session
JSONparse(text) ==
    IF Len(text) = 0 \/ text[1] # "{" THEN ParseError
    ELSE ParseFrom(text, 2, 1, <<>>)

\* ---------------------------------------------------------- file system
\* getSessionPath(id)
getSessionPath(id) == id \o ".json"

\* mutant: the record is written in place, without a temporary file
TmpPath_InPlace(id) == getSessionPath(id)

\* path + ".tmp" in writeSession / writeSessionFile
TmpPath(id) == getSessionPath(id) \o ".tmp"

\* file.endsWith(".json")
EndsWithJson(file) ==
    Len(file) >= 5 /\ SubSeq(file, Len(file) - 4, Len(file)) = ".json"

\* file.replace(".json", "") of a name that ends with ".json"
SessionIdOf(file) == SubSeq(file, 1, Len(file) - 5)

existsSync(f, path) == path \in DOMAIN f

\* writeFileSync(path, data): create or truncate, then write
writeFileSync(f, path, data) ==
    [n \in DOMAIN f \cup {path} |-> IF n = path THEN data ELSE f[n]]

\* renameSync(from, to) of an existing file
renameSync(f, from, to) ==
    [n \in (DOMAIN f \ {from}) \cup {to} |-> IF n = to THEN f[from] ELSE f[n]]

\* unlinkSync(path) of an existing file
unlinkSync(f, path) == [n \in DOMAIN f \ {path} |-> f[n]]

\* ------------------------------------------------------------ hook script
\* a ?? b
Coalesce(a, b) == IF a # Null /\ a # Undefined THEN a ELSE b

mapEventName(hookEventName) ==
    CASE hookEventName = "SessionStart" -> "session-start"
      [] hookEventName = "UserPromptSubmit" -> "user-prompt-submit"
      [] hookEventName = "Stop" -> "stop"
      [] hookEventName = "PermissionRequest" -> "permission-request"
      [] hookEventName = "PreToolUse" -> "pre-tool-use"
      [] hookEventName = "PostToolUse" -> "post-tool-use"
      [] hookEventName = "PostToolUseFailure" -> "post-tool-use-failure"
      [] hookEventName = "SessionEnd" -> "session-end"
      [] OTHER -> Undefined

\* const event = mapEventName(input.hook_event_name) ?? process.argv[2]
ResolveEvent(hookEventName, argv2) == Coalesce(mapEventName(hookEventName), argv2)

\* `null` where a Session is expected (readSession, getSession)
NullSession == [null |-> TRUE]

readSession(f, id) ==
    IF ~existsSync(f, getSessionPath(id)) THEN NullSession
    ELSE LET session == JSONparse(f[getSessionPath(id)])
         IN  IF session = ParseError THEN NullSession ELSE session

writeSession(f, session) ==
    renameSync(writeFileSync(f, TmpPath(session.id), JSONstringify(session)),
               TmpPath(session.id), getSessionPath(session.id))

deleteSessionFile(f, id) ==
    IF existsSync(f, getSessionPath(id)) THEN unlinkSync(f, getSessionPath(id)) ELSE f

\* the files deleteSessionsByPid unlinks
PidDuplicates(f, pid, exceptId) ==
    { file \in DOMAIN f :
        /\ EndsWithJson(file)
        /\ ~(exceptId # Undefined /\ SessionIdOf(file) = exceptId)
        /\ JSONparse(f[file]) # ParseError
        /\ JSONparse(f[file]).pid = pid }

\* mutant: the cleanup of duplicates is left out
deleteSessionsByPid_None(f, pid, exceptId) == f

\* a cleanup that does not ask whether the pid was found
deleteSessionsByPid_UnknownPid(f, pid, exceptId) ==
    [n \in DOMAIN f \ PidDuplicates(f, pid, exceptId) |-> f[n]]

deleteSessionsByPid(f, pid, exceptId) ==
    IF pid <= 0 THEN f
    ELSE [n \in DOMAIN f \ PidDuplicates(f, pid, exceptId) |-> f[n]]

\* string helpers for formatToolAction
CharAt(str, i) == SubSeq(str, i, i)

StartsWith(str, prefix) ==
    Len(str) >= Len(prefix) /\ SubSeq(str, 1, Len(prefix)) = prefix

\* the first index >= i of an underscore in str, Len(str) + 1 if there is none
RECURSIVE NextUnderscore(_, _)
NextUnderscore(str, i) ==
    IF i > Len(str) \/ CharAt(str, i) = "_" THEN i ELSE NextUnderscore(str, i + 1)

\* toolName.replace(/^mcp__[^_]+__/, "")
StripMcpPrefix(toolName) ==
    IF ~StartsWith(toolName, "mcp__") THEN toolName
    ELSE LET j == NextUnderscore(toolName, 6)
         IN  IF j > 6 /\ j + 1 <= Len(toolName) /\ CharAt(toolName, j + 1) = "_"
             THEN SubSeq(toolName, j + 2, Len(toolName))
             ELSE toolName

\* the index of the last "/" in path, 0 if there is none
RECURSIVE LastSlash(_, _)
LastSlash(path, i) ==
    IF i = 0 \/ CharAt(path, i) = "/" THEN i ELSE LastSlash(path, i - 1)

\* file_path.split("/").pop() || file_path
BaseName(path) ==
    LET file == SubSeq(path, LastSlash(path, Len(path)) + 1, Len(path))
    IN  IF file # "" THEN file ELSE path

\* a property that is given and is not the empty string
Truthy(x) == x # Undefined /\ x # Null /\ x # ""

CommandLimit == 30

formatToolAction(toolName, toolInput) ==
    LET name == StripMcpPrefix(toolName)
    IN  CASE toolName = "Bash" ->
               IF Truthy(toolInput.command)
               THEN "Bash: "
                    \o SubSeq(toolInput.command, 1,
                              IF Len(toolInput.command) < CommandLimit
                              THEN Len(toolInput.command) ELSE CommandLimit)
                    \o (IF Len(toolInput.command) > CommandLimit THEN "..." ELSE "")
               ELSE "Running: Bash"
          [] toolName \in {"Read", "Edit", "Write"} ->
               IF Truthy(toolInput.file_path)
               THEN toolName \o ": " \o BaseName(toolInput.file_path)
               ELSE "Running: " \o toolName
          [] toolName \in {"Grep", "Glob"} -> "Searching..."
          [] toolName = "Task" -> "Running agent..."
          [] OTHER -> "Running: " \o name

\* The hook's handlers. input is the hook's stdin JSON ([session_id, cwd,
\* tool_name, tool_input]); pid, tmux and wname are what getClaudePid(),
\* getTmuxTarget() and getWindowName() return in the hook's process; t is
\* Date.now(). Each yields the sessions directory the handler leaves.

\* mutant: SessionStart merges into an existing record, keeping its state and action
handleSessionStart_Merge(f, input, pid, tmux, wname, t) ==
    LET existing == readSession(f, input.session_id)
    IN  writeSession(deleteSessionsByPid(f, pid, input.session_id),
                 [v |-> SCHEMA_VERSION, id |-> input.session_id, pid |-> pid,
                  cwd |-> input.cwd, tmux_target |-> tmux, window_name |-> wname,
                  state |-> IF existing = NullSession THEN "idle" ELSE existing.state,
                  current_action |->
                      IF existing = NullSession THEN Null ELSE existing.current_action,
                  prompt_text |-> Null, last_update |-> t])

handleSessionStart(f, input, pid, tmux, wname, t) ==
    writeSession(deleteSessionsByPid(f, pid, input.session_id),
                 [v |-> SCHEMA_VERSION, id |-> input.session_id, pid |-> pid,
                  cwd |-> input.cwd, tmux_target |-> tmux, window_name |-> wname,
                  state |-> "idle", current_action |-> Null, prompt_text |-> Null,
                  last_update |-> t])

\* the shared body with the target and the window name taken from the
\* environment as they are
UpdateExisting_Overwrites(f, input, tmux, wname, t, state, action) ==
    LET session == readSession(f, input.session_id)
    IN  IF session = NullSession THEN f
        ELSE writeSession(f,
               [session EXCEPT !.tmux_target = tmux,
                               !.window_name = wname,
                               !.state = state,
                               !.current_action = action,
                               !.last_update = t])

\* the body the record-requiring handlers share: read, return if absent,
\* refresh target and window name, set state and action, stamp, write
UpdateExisting(f, input, tmux, wname, t, state, action) ==
    LET session == readSession(f, input.session_id)
    IN  IF session = NullSession THEN f
        ELSE writeSession(f,
               [session EXCEPT !.tmux_target = Coalesce(tmux, @),
                               !.window_name = Coalesce(wname, @),
                               !.state = state,
                               !.current_action = action,
                               !.last_update = t])

handleUserPromptSubmit(f, input, tmux, wname, t) ==
    UpdateExisting(f, input, tmux, wname, t, "busy", "Thinking...")

\* mutant: Stop writes a record even when it read none
handleStop_CreatesRecord(f, input, tmux, wname, t) ==
    LET session == readSession(f, input.session_id)
    IN  writeSession(f,
            IF session = NullSession
            THEN [v |-> SCHEMA_VERSION, id |-> input.session_id, pid |-> 0,
                  cwd |-> input.cwd, tmux_target |-> tmux, window_name |-> wname,
                  state |-> "idle", current_action |-> Null, prompt_text |-> Null,
                  last_update |-> t]
            ELSE [session EXCEPT !.tmux_target = Coalesce(tmux, @),
                                 !.window_name = Coalesce(wname, @),
                                 !.state = "idle", !.current_action = Null,
                                 !.last_update = t])

handleStop(f, input, tmux, wname, t) ==
    UpdateExisting(f, input, tmux, wname, t, "idle", Null)

\* mutant: PermissionRequest is handled like Notification(permission)
handlePermissionRequest_AsPermission(f, input, tmux, wname, t) ==
    UpdateExisting(f, input, tmux, wname, t, "permission", "Waiting for permission")

handlePermissionRequest(f, input, tmux, wname, t) ==
    UpdateExisting(f, input, tmux, wname, t, "waiting", "Waiting...")

handleNotificationIdle(f, input, tmux, wname, t) ==
    UpdateExisting(f, input, tmux, wname, t, "idle", Null)

handleNotificationPermission(f, input, tmux, wname, t) ==
    UpdateExisting(f, input, tmux, wname, t, "permission", "Waiting for permission")

handleNotificationElicitation(f, input, tmux, wname, t) ==
    UpdateExisting(f, input, tmux, wname, t, "waiting", "Waiting for input")

handlePreToolUse(f, input, tmux, wname, t) ==
    UpdateExisting(f, input, tmux, wname, t, "busy",
                   IF Truthy(input.tool_name)
                   THEN formatToolAction(input.tool_name, input.tool_input)
                   ELSE "Working...")

\* mutant: PostToolUse leaves the action of the tool in place
handlePostToolUse_KeepsAction(f, input, tmux, wname, t) ==
    UpdateExisting(f, input, tmux, wname, t, "busy",
                   readSession(f, input.session_id).current_action)

handlePostToolUse(f, input, tmux, wname, t) ==
    UpdateExisting(f, input, tmux, wname, t, "busy", Null)

handlePostToolUseFailure(f, input, tmux, wname, t) ==
    UpdateExisting(f, input, tmux, wname, t, "busy", Null)

handleSessionEnd(f, input) == deleteSessionFile(f, input.session_id)

EventKinds ==
    {"session-start", "user-prompt-submit", "stop", "permission-request",
     "notification-idle", "notification-permission", "notification-elicitation",
     "pre-tool-use", "post-tool-use", "post-tool-use-failure", "session-end"}

\* the switch of main(): the handler the resolved event selects
Dispatch(event, f, input, pid, tmux, wname, t) ==
    CASE event = "session-start" -> handleSessionStart(f, input, pid, tmux, wname, t)
      [] event = "user-prompt-submit" -> handleUserPromptSubmit(f, input, tmux, wname, t)
      [] event = "stop" -> handleStop(f, input, tmux, wname, t)
      [] event = "permission-request" -> handlePermissionRequest(f, input, tmux, wname, t)
      [] event = "notification-idle" -> handleNotificationIdle(f, input, tmux, wname, t)
      [] event = "notification-permission" ->
             handleNotificationPermission(f, input, tmux, wname, t)
      [] event = "notification-elicitation" ->
             handleNotificationElicitation(f, input, tmux, wname, t)
      [] event = "pre-tool-use" -> handlePreToolUse(f, input, tmux, wname, t)
      [] event = "post-tool-use" -> handlePostToolUse(f, input, tmux, wname, t)
      [] event = "post-tool-use-failure" ->
             handlePostToolUseFailure(f, input, tmux, wname, t)
      [] event = "session-end" -> handleSessionEnd(f, input)
      [] OTHER -> f

\* a hook that reports success whatever the event
ExitStatus_AlwaysZero(event) == 0

\* the exit status of main(): process.exit(1) when no event is resolved and
\* in the default case of the switch, 0 at the end of main otherwise
ExitStatus(event) ==
    IF event = Undefined THEN 1
    ELSE IF event \in EventKinds THEN 0
    ELSE 1

\* ----------------------------------------------- the JSON store's API
\* Each operator yields the sessions directory the call leaves; t is Date.now().
getSession(f, id) ==
    IF ~existsSync(f, getSessionPath(id)) THEN NullSession
    ELSE LET session == JSONparse(f[getSessionPath(id)])
         IN  IF session = ParseError THEN NullSession ELSE session

writeSessionFile(f, session) ==
    renameSync(writeFileSync(f, TmpPath(session.id), JSONstringify(session)),
               TmpPath(session.id), getSessionPath(session.id))

\* existing?.field
OfExisting(existing, field) ==
    IF existing = NullSession THEN Undefined ELSE existing[field]

\* mutant: a new record without a state is created idle
upsertSession_DefaultIdle(f, input, t) ==
    LET existing == getSession(f, input.id)
    IN  writeSessionFile(f,
          [v |-> SCHEMA_VERSION, id |-> input.id, pid |-> input.pid, cwd |-> input.cwd,
           tmux_target |-> Coalesce(Coalesce(input.tmux_target,
                                             OfExisting(existing, "tmux_target")), Null),
           window_name |-> Coalesce(Coalesce(input.window_name,
                                             OfExisting(existing, "window_name")), Null),
           state |-> Coalesce(Coalesce(input.state, OfExisting(existing, "state")), "idle"),
           current_action |-> Coalesce(Coalesce(input.current_action,
                                       OfExisting(existing, "current_action")), Null),
           prompt_text |-> Coalesce(Coalesce(input.prompt_text,
                                             OfExisting(existing, "prompt_text")), Null),
           last_update |-> t])

\* an upsert whose default state is not one of the four
upsertSession_DefaultsToActive(f, input, t) ==
    LET existing == getSession(f, input.id)
    IN  writeSessionFile(f,
          [v |-> SCHEMA_VERSION, id |-> input.id, pid |-> input.pid, cwd |-> input.cwd,
           tmux_target |-> Coalesce(Coalesce(input.tmux_target,
                                             OfExisting(existing, "tmux_target")), Null),
           window_name |-> Coalesce(Coalesce(input.window_name,
                                             OfExisting(existing, "window_name")), Null),
           state |-> Coalesce(Coalesce(input.state, OfExisting(existing, "state")), "active"),
           current_action |-> Coalesce(Coalesce(input.current_action,
                                       OfExisting(existing, "current_action")), Null),
           prompt_text |-> Coalesce(Coalesce(input.prompt_text,
                                             OfExisting(existing, "prompt_text")), Null),
           last_update |-> t])

upsertSession(f, input, t) ==
    LET existing == getSession(f, input.id)
    IN  writeSessionFile(f,
          [v |-> SCHEMA_VERSION, id |-> input.id, pid |-> input.pid, cwd |-> input.cwd,
           tmux_target |-> Coalesce(Coalesce(input.tmux_target,
                                             OfExisting(existing, "tmux_target")), Null),
           window_name |-> Coalesce(Coalesce(input.window_name,
                                             OfExisting(existing, "window_name")), Null),
           state |-> Coalesce(Coalesce(input.state, OfExisting(existing, "state")), "busy"),
           current_action |-> Coalesce(Coalesce(input.current_action,
                                       OfExisting(existing, "current_action")), Null),
           prompt_text |-> Coalesce(Coalesce(input.prompt_text,
                                             OfExisting(existing, "prompt_text")), Null),
           last_update |-> t])

\* the fields of a SessionUpdate
UpdateFields == {"state", "current_action", "prompt_text", "tmux_target", "window_name"}

\* mutant: a field of the update is applied only when it is neither undefined nor null
updateSession_SkipNull(f, id, update, t) ==
    LET session == getSession(f, id)
    IN  IF session = NullSession THEN f
        ELSE writeSessionFile(f,
               [field \in DOMAIN session |->
                   IF field = "last_update" THEN t
                   ELSE IF field \in UpdateFields
                        THEN Coalesce(update[field], session[field])
                   ELSE session[field]])

updateSession(f, id, update, t) ==
    LET session == getSession(f, id)
    IN  IF session = NullSession THEN f
        ELSE writeSessionFile(f,
               [field \in DOMAIN session |->
                   IF field = "last_update" THEN t
                   ELSE IF field \in UpdateFields /\ update[field] # Undefined
                        THEN update[field]
                   ELSE session[field]])

\* mutant: the delete clears the whole sessions directory
deleteSession_All(f, id) == [n \in {} |-> <<>>]

deleteSession(f, id) ==
    IF existsSync(f, getSessionPath(id)) THEN unlinkSync(f, getSessionPath(id)) ELSE f

\* ------------------------------------------------- inputs of the hook script
NoToolInput == [command |-> Undefined, file_path |-> Undefined]

\* (tool_name, tool_input) of a hook's stdin JSON
ToolUses ==
    { [tool_name |-> "Bash", tool_input |-> [command |-> "npm test", file_path |-> Undefined]],
      [tool_name |-> "Read", tool_input |-> [command |-> Undefined, file_path |-> "/a/b.ts"]],
      [tool_name |-> Undefined, tool_input |-> NoToolInput] }

HookInput(id, cwd, tool) ==
    [session_id |-> id, cwd |-> cwd, tool_name |-> tool.tool_name,
     tool_input |-> tool.tool_input]

NoTool == [tool_name |-> Undefined, tool_input |-> NoToolInput]

\* SessionStart and SessionEnd arrive for every session id
StartInputs == { HookInput(id, cwd, NoTool) : id \in SessionIds, cwd \in Cwds }

\* The handlers treat every id alike, so the events between start and end are
\* drawn for the ids of EventIds only; the other sessions are the bystanders
\* a handler must leave alone.
EventIds == {"s1"}

PlainInputs == { HookInput(id, cwd, NoTool) : id \in EventIds, cwd \in Cwds }

ToolInputs == { HookInput(id, cwd, tool) : id \in EventIds, cwd \in Cwds, tool \in ToolUses }

\* (input.hook_event_name, process.argv[2]) of the hook's invocations: Claude
\* Code 2.1 names the event in stdin, older versions only in argv, and the
\* Notification hooks are told apart by argv alone
Invocations ==
    { <<Undefined, k>> : k \in EventKinds }
    \cup { <<"SessionStart", "session-start">>, <<"UserPromptSubmit", "user-prompt-submit">>,
           <<"Stop", "stop">>, <<"PermissionRequest", "permission-request">>,
           <<"PreToolUse", "pre-tool-use">>, <<"PostToolUse", "post-tool-use">>,
           <<"PostToolUseFailure", "post-tool-use-failure">>,
           <<"SessionEnd", "session-end">>,
           <<"Notification", "notification-idle">>,
           <<"Notification", "notification-permission">>,
           <<"Notification", "notification-elicitation">>,
           <<"Stop", Undefined>>, <<"Notification", Undefined>>,
           <<Undefined, Undefined>>, <<Undefined, "compact">> }

\* the events the invocations resolve to
ResolvedEvents == { ResolveEvent(i[1], i[2]) : i \in Invocations }

\* (getTmuxTarget(), getWindowName()) in the hook's process: outside tmux both
\* are null; inside, the window name is null when tmux prints an empty name
HookEnvs ==
    {<<Null, Null>>}
    \cup { <<target, wname>> : target \in TmuxTargets, wname \in WindowNames \cup {Null} }

\* ---------------------------------------------------------------- state
EmptyDir == [n \in {} |-> <<>>]

NoProc == [pc |-> "none"]

\* nothing read yet, nothing committed yet
NoObs == [by |-> "none", file |-> Null, got |-> NullSession, committed |-> NullSession,
          during |-> "none", left |-> {}]
NoHist == [committed |-> NullSession, deleted |-> FALSE]

\* the operation that ran last: its kind, the session id it was for, what it
\* was given, its exit status, whether the session's file existed before it,
\* and the files it removed (before and after are the directory around it)
Event(kind, id, given, exit, before, after) ==
    [kind |-> kind, id |-> id, given |-> given, exit |-> exit,
     had |-> IF id = Null THEN FALSE ELSE existsSync(before, getSessionPath(id)),
     removed |-> DOMAIN before \ DOMAIN after]

Nothing == [pid |-> 0, cwd |-> Null, tmux |-> Null, wname |-> Null, tool |-> Null]

Init ==
    /\ fs = EmptyDir
    /\ now = 0
    /\ ev = Event("init", Null, Nothing, 0, EmptyDir, EmptyDir)
    /\ proc = NoProc
    /\ obs = NoObs
    /\ hist = NoHist

\* the wall clock advances
Tick ==
    /\ now < MaxClock
    /\ now' = now + 1
    /\ ev' = Event("tick", Null, Nothing, 0, fs, fs)
    /\ UNCHANGED <<fs, proc, obs, hist>>

\* ---------------------------------------- the hook script, a handler per step
\* Each action is one run of main() whose event resolves to the handler's case.
HandleSessionStart ==
    \E input \in StartInputs, pid \in Pids, env \in HookEnvs :
        /\ "session-start" \in ResolvedEvents
        /\ fs' = handleSessionStart(fs, input, pid, env[1], env[2], now)
        /\ ev' = Event("session-start", input.session_id,
                       [pid |-> pid, cwd |-> input.cwd, tmux |-> env[1], wname |-> env[2],
                        tool |-> Null], 0, fs, fs')
        /\ UNCHANGED <<now, proc, obs, hist>>

HandleUserPromptSubmit ==
    \E input \in PlainInputs, env \in HookEnvs :
        /\ "user-prompt-submit" \in ResolvedEvents
        /\ fs' = handleUserPromptSubmit(fs, input, env[1], env[2], now)
        /\ ev' = Event("user-prompt-submit", input.session_id, Nothing, 0, fs, fs')
        /\ UNCHANGED <<now, proc, obs, hist>>

HandleStop ==
    \E input \in PlainInputs, env \in HookEnvs :
        /\ "stop" \in ResolvedEvents
        /\ fs' = handleStop(fs, input, env[1], env[2], now)
        /\ ev' = Event("stop", input.session_id, Nothing, 0, fs, fs')
        /\ UNCHANGED <<now, proc, obs, hist>>

HandlePermissionRequest ==
    \E input \in PlainInputs, env \in HookEnvs :
        /\ "permission-request" \in ResolvedEvents
        /\ fs' = handlePermissionRequest(fs, input, env[1], env[2], now)
        /\ ev' = Event("permission-request", input.session_id, Nothing, 0, fs, fs')
        /\ UNCHANGED <<now, proc, obs, hist>>

HandleNotificationIdle ==
    \E input \in PlainInputs, env \in HookEnvs :
        /\ "notification-idle" \in ResolvedEvents
        /\ fs' = handleNotificationIdle(fs, input, env[1], env[2], now)
        /\ ev' = Event("notification-idle", input.session_id, Nothing, 0, fs, fs')
        /\ UNCHANGED <<now, proc, obs, hist>>

HandleNotificationPermission ==
    \E input \in PlainInputs, env \in HookEnvs :
        /\ "notification-permission" \in ResolvedEvents
        /\ fs' = handleNotificationPermission(fs, input, env[1], env[2], now)
        /\ ev' = Event("notification-permission", input.session_id, Nothing, 0, fs, fs')
        /\ UNCHANGED <<now, proc, obs, hist>>

HandleNotificationElicitation ==
    \E input \in PlainInputs, env \in HookEnvs :
        /\ "notification-elicitation" \in ResolvedEvents
        /\ fs' = handleNotificationElicitation(fs, input, env[1], env[2], now)
        /\ ev' = Event("notification-elicitation", input.session_id, Nothing, 0, fs, fs')
        /\ UNCHANGED <<now, proc, obs, hist>>

HandlePreToolUse ==
    \E input \in ToolInputs, env \in HookEnvs :
        /\ "pre-tool-use" \in ResolvedEvents
        /\ fs' = handlePreToolUse(fs, input, env[1], env[2], now)
        /\ ev' = Event("pre-tool-use", input.session_id,
                       [Nothing EXCEPT !.tool = [tool_name |-> input.tool_name,
                                                 tool_input |-> input.tool_input]],
                       0, fs, fs')
        /\ UNCHANGED <<now, proc, obs, hist>>

HandlePostToolUse ==
    \E input \in PlainInputs, env \in HookEnvs :
        /\ "post-tool-use" \in ResolvedEvents
        /\ fs' = handlePostToolUse(fs, input, env[1], env[2], now)
        /\ ev' = Event("post-tool-use", input.session_id, Nothing, 0, fs, fs')
        /\ UNCHANGED <<now, proc, obs, hist>>

HandlePostToolUseFailure ==
    \E input \in PlainInputs, env \in HookEnvs :
        /\ "post-tool-use-failure" \in ResolvedEvents
        /\ fs' = handlePostToolUseFailure(fs, input, env[1], env[2], now)
        /\ ev' = Event("post-tool-use-failure", input.session_id, Nothing, 0, fs, fs')
        /\ UNCHANGED <<now, proc, obs, hist>>

HandleSessionEnd ==
    \E input \in StartInputs :
        /\ "session-end" \in ResolvedEvents
        /\ fs' = handleSessionEnd(fs, input)
        /\ ev' = Event("session-end", input.session_id, Nothing, 0, fs, fs')
        /\ UNCHANGED <<now, proc, obs, hist>>

\* main() with an event that is not one of the switch's cases, or with none:
\* process.exit(1) before any handler runs. The pid and the terminal are
\* looked up inside the handlers, so none is looked up here.
HandleUnknownEvent ==
    \E event \in ResolvedEvents, input \in StartInputs :
        /\ event \notin EventKinds
        /\ fs' = IF event = Undefined THEN fs
                 ELSE Dispatch(event, fs, input, 0, Null, Null, now)
        /\ ev' = Event("unknown", Null, [Nothing EXCEPT !.tool = event],
                       ExitStatus(event), fs, fs')
        /\ UNCHANGED <<now, proc, obs, hist>>

Next ==
    \/ Tick
    \/ HandleSessionStart
    \/ HandleUserPromptSubmit
    \/ HandleStop
    \/ HandlePermissionRequest
    \/ HandleNotificationIdle
    \/ HandleNotificationPermission
    \/ HandleNotificationElicitation
    \/ HandlePreToolUse
    \/ HandlePostToolUse
    \/ HandlePostToolUseFailure
    \/ HandleSessionEnd
    \/ HandleUnknownEvent

Spec == Init /\ [][Next]_vars

\* ----------------------------------------------- inputs of the store's API
ActionTexts == {"Thinking..."}

SessionInput(id, pid, cwd, tmux, wname, state, action, prompt) ==
    [id |-> id, pid |-> pid, cwd |-> cwd, tmux_target |-> tmux, window_name |-> wname,
     state |-> state, current_action |-> action, prompt_text |-> prompt]

\* the inputs upsertSession is called with: every optional field given, null or
\* absent for one session; for the other, the input of the server's call
SessionInputs ==
    { SessionInput("s1", pid, cwd, tmux, wname, state, action, prompt) :
        pid \in {0, 1}, cwd \in Cwds, tmux \in TmuxTargets \cup {Null, Undefined},
        wname \in WindowNames \cup {Undefined}, state \in {"waiting", Undefined},
        action \in ActionTexts \cup {Undefined}, prompt \in {Undefined} }
    \cup { SessionInput("s2", 0, cwd, tmux, Undefined, "idle", Undefined, Undefined) :
             cwd \in Cwds, tmux \in TmuxTargets }

SessionUpdate(state, action, prompt, tmux, wname) ==
    [state |-> state, current_action |-> action, prompt_text |-> prompt,
     tmux_target |-> tmux, window_name |-> wname]

\* the updates updateSession is called with; the second is the one the pane
\* check of the application sends
SessionUpdates ==
    { SessionUpdate(Undefined, Undefined, Undefined, Undefined, Undefined),
      SessionUpdate("idle", Null, Null, Undefined, Undefined),
      SessionUpdate("permission", "Waiting for permission", Undefined, Undefined,
                    Undefined),
      SessionUpdate(Undefined, Null, Undefined, Undefined, Undefined),
      SessionUpdate(Undefined, Undefined, "hi", Undefined, Undefined),
      SessionUpdate(Undefined, Undefined, Undefined, Null, Undefined),
      SessionUpdate(Undefined, Undefined, Undefined, "main:0.1", "vim"),
      SessionUpdate(Undefined, Undefined, Undefined, Undefined, Null) }

\* ------------------------------------ the store's API, a call per step
UpsertSession ==
    \E input \in SessionInputs :
        /\ fs' = upsertSession(fs, input, now)
        /\ ev' = Event("upsert", input.id, input, 0, fs, fs')
        /\ UNCHANGED <<now, proc, obs, hist>>

UpdateSession ==
    \E id \in EventIds, update \in SessionUpdates :
        /\ fs' = updateSession(fs, id, update, now)
        /\ ev' = Event("update", id, update, 0, fs, fs')
        /\ UNCHANGED <<now, proc, obs, hist>>

DeleteSession ==
    \E id \in SessionIds :
        /\ fs' = deleteSession(fs, id)
        /\ ev' = Event("delete", id, [repeat |-> ev.kind = "delete" /\ ev.id = id],
                       0, fs, fs')
        /\ UNCHANGED <<now, proc, obs, hist>>

NextStore ==
    \/ Tick
    \/ UpsertSession
    \/ UpdateSession
    \/ DeleteSession

SpecStore == Init /\ [][NextStore]_vars

\* --------------------------- processes on the sessions directory, a system
\* call per step. A writer process runs one call of the hook script or of the
\* store's API at a time: it reads the session file, then writes the new
\* record with writeFileSync(tmpPath) (open with O_CREAT|O_TRUNC, write,
\* close) and renameSync(tmpPath, path). An open file descriptor follows its
\* file: fd is "tmp" or "path" while the file has that name, "orphan" once the
\* file has no name.
Writers == {"w1", "w2"}

Call(kind, id, given) == [kind |-> kind, id |-> id, given |-> given]

\* the calls a process makes: events of the hook script, and the calls of the
\* application (the pane check's update) and of the server (its upsert)
Calls ==
    { Call(kind, input.session_id,
           [input |-> input, pid |-> 1, tmux |-> Null, wname |-> Null]) :
        kind \in {"session-start", "permission-request", "stop", "session-end"},
        input \in PlainInputs }
    \cup { Call("update", id, SessionUpdate("idle", Null, Null, Undefined, Undefined)) :
             id \in EventIds }
    \cup { Call("upsert", id,
                SessionInput(id, 0, cwd, tmux, Undefined, "idle", Undefined, Undefined)) :
             id \in EventIds, cwd \in Cwds, tmux \in TmuxTargets }
    \cup { Call("delete", id, Nothing) : id \in EventIds }

NoCall == Call("none", Null, Nothing)

\* the calls that create a record, and the calls that delete one
Creates(call) == call.kind \in {"session-start", "upsert"}
Deletes(call) == call.kind \in {"session-end", "delete"}

\* the sessions directory a call leaves when nothing else runs during it
Apply(call, f, t) ==
    CASE call.kind \in EventKinds ->
             Dispatch(call.kind, f, call.given.input, call.given.pid,
                      call.given.tmux, call.given.wname, t)
      [] call.kind = "upsert" -> upsertSession(f, call.given, t)
      [] call.kind = "update" -> updateSession(f, call.id, call.given, t)
      [] call.kind = "delete" -> deleteSession(f, call.id)

\* a directory that holds what the call has read, and nothing else
Seen(session) ==
    IF session = NullSession THEN EmptyDir ELSE writeSessionFile(EmptyDir, session)

\* the record a call writes after it has read session (NullSession: none)
Written(call, session, t) == getSession(Apply(call, Seen(session), t), call.id)

\* write(fd, data) at offset 0 of a file that holds old
Overlay(data, old) == data \o SubSeq(old, Len(data) + 1, Len(old))

Ready == [pc |-> "ready", call |-> NoCall, rec |-> NullSession, fd |-> "none",
          failed |-> FALSE]

Off == [Ready EXCEPT !.pc = "off"]

\* the descriptors of the other processes after rename(tmp, path)
AfterRename(p, w) ==
    [x \in DOMAIN p |->
        IF x = w THEN p[x]
        ELSE [p[x] EXCEPT !.fd = IF @ = "tmp" THEN "path"
                                 ELSE IF @ = "path" THEN "orphan" ELSE @]]

\* the descriptors after unlink(path)
AfterUnlink(p) ==
    [x \in DOMAIN p |-> [p[x] EXCEPT !.fd = IF @ = "path" THEN "orphan" ELSE @]]

InitFS ==
    /\ fs = EmptyDir
    /\ now = 0
    /\ ev = Event("init", Null, Nothing, 0, EmptyDir, EmptyDir)
    /\ proc = [w \in Writers |-> Ready]
    /\ obs = NoObs
    /\ hist = NoHist

\* one writer process at a time
InitFS1 ==
    /\ fs = EmptyDir
    /\ now = 0
    /\ ev = Event("init", Null, Nothing, 0, EmptyDir, EmptyDir)
    /\ proc = [w \in Writers |-> IF w = "w1" THEN Ready ELSE Off]
    /\ obs = NoObs
    /\ hist = NoHist

\* handleSessionStart up to its writeSession: the scan for records of the same pid
StartSession(w) ==
    \E call \in Calls :
        /\ proc[w].pc = "ready"
        /\ call.kind = "session-start"
        /\ fs' = deleteSessionsByPid(fs, call.given.pid, call.id)
        /\ proc' = [proc EXCEPT ![w] = [pc |-> "open", call |-> call,
                                        rec |-> Written(call, NullSession, now),
                                        fd |-> "none", failed |-> FALSE]]
        /\ hist' = [hist EXCEPT !.deleted = FALSE]
        /\ UNCHANGED <<now, ev, obs>>

\* handleSessionEnd, deleteSession: existsSync and unlinkSync
Unlink(w) ==
    \E call \in Calls :
        /\ proc[w].pc = "ready"
        /\ Deletes(call)
        /\ fs' = Apply(call, fs, now)
        /\ proc' = [AfterUnlink(proc) EXCEPT ![w] = Ready]
        /\ hist' = [committed |-> NullSession, deleted |-> TRUE]
        /\ UNCHANGED <<now, ev, obs>>

\* readSession, getSession at the head of a handler, of upsertSession and of
\* updateSession; the call ends here when it has nothing to write
ReadRecord(w) ==
    \E call \in Calls :
        /\ proc[w].pc = "ready"
        /\ call.kind # "session-start"
        /\ ~Deletes(call)
        /\ LET rec == Written(call, getSession(fs, call.id), now)
           IN  proc' = [proc EXCEPT ![w] =
                          IF rec = NullSession THEN Ready
                          ELSE [pc |-> "open", call |-> call, rec |-> rec,
                                fd |-> "none", failed |-> FALSE]]
        /\ hist' = IF Creates(call) THEN [hist EXCEPT !.deleted = FALSE] ELSE hist
        /\ UNCHANGED <<fs, now, ev, obs>>

\* writeFileSync(tmpPath, ...): open(tmpPath, O_WRONLY|O_CREAT|O_TRUNC)
OpenTmp(w) ==
    /\ proc[w].pc = "open"
    /\ fs' = writeFileSync(fs, TmpPath(proc[w].call.id), <<>>)
    /\ proc' = [proc EXCEPT ![w].pc = "write", ![w].fd = "tmp"]
    /\ UNCHANGED <<now, ev, obs, hist>>

\* writeFileSync(tmpPath, ...): write(fd, data) and close(fd)
WriteTmp(w) ==
    /\ proc[w].pc = "write"
    /\ LET name == IF proc[w].fd = "tmp" THEN TmpPath(proc[w].call.id)
                   ELSE getSessionPath(proc[w].call.id)
       IN  fs' = IF proc[w].fd = "orphan" THEN fs
                 ELSE [fs EXCEPT ![name] = Overlay(JSONstringify(proc[w].rec), @)]
    /\ proc' = [proc EXCEPT ![w].pc = "rename", ![w].fd = "none"]
    /\ UNCHANGED <<now, ev, obs, hist>>

\* renameSync(tmpPath, path); it throws ENOENT when tmpPath is gone, which
\* main() of the hook and the pane check of the application catch and drop
Rename(w) ==
    /\ proc[w].pc = "rename"
    /\ IF existsSync(fs, TmpPath(proc[w].call.id))
       THEN /\ fs' = renameSync(fs, TmpPath(proc[w].call.id),
                                getSessionPath(proc[w].call.id))
            /\ proc' = [AfterRename(proc, w) EXCEPT ![w] = Ready]
            /\ hist' = [committed |-> proc[w].rec,
                        deleted |-> hist.deleted /\ ~Creates(proc[w].call)]
       ELSE /\ fs' = fs
            /\ proc' = [proc EXCEPT ![w] = [Ready EXCEPT !.failed = TRUE]]
            /\ hist' = hist
    /\ UNCHANGED <<now, ev, obs>>

\* getAllSessions: readdirSync(sessionsDir) and the filter on ".json"
Readdir ==
    /\ obs.left = {}
    /\ obs' = [obs EXCEPT !.left = {file \in DOMAIN fs : EndsWithJson(file)}]
    /\ UNCHANGED <<fs, now, ev, proc, hist>>

\* getAllSessions: readFileSync and JSON.parse of one of the files listed; a
\* file that is gone or does not parse is skipped
ReadFile ==
    \E file \in obs.left :
        /\ obs' = [by |-> "getAllSessions", file |-> file,
                   got |-> IF existsSync(fs, file) THEN JSONparse(fs[file])
                           ELSE NullSession,
                   committed |-> hist.committed,
                   during |-> proc["w1"].pc,
                   left |-> obs.left \ {file}]
        /\ UNCHANGED <<fs, now, ev, proc, hist>>

\* getSession(id) of a reader
GetSession ==
    \E id \in EventIds :
        /\ obs' = [obs EXCEPT !.by = "getSession",
                              !.file = getSessionPath(id),
                              !.got = getSession(fs, id),
                              !.committed = hist.committed,
                              !.during = proc["w1"].pc]
        /\ UNCHANGED <<fs, now, ev, proc, hist>>

\* one writer process and a reader
NextFS1 ==
    \/ Tick
    \/ \E w \in Writers : StartSession(w)
    \/ \E w \in Writers : Unlink(w)
    \/ \E w \in Writers : ReadRecord(w)
    \/ \E w \in Writers : OpenTmp(w)
    \/ \E w \in Writers : WriteTmp(w)
    \/ \E w \in Writers : Rename(w)
    \/ Readdir
    \/ ReadFile
    \/ GetSession

SpecFS1 == InitFS1 /\ [][NextFS1]_vars

\* two writer processes
NextFS ==
    \/ Tick
    \/ \E w \in Writers : StartSession(w)
    \/ \E w \in Writers : Unlink(w)
    \/ \E w \in Writers : ReadRecord(w)
    \/ \E w \in Writers : OpenTmp(w)
    \/ \E w \in Writers : WriteTmp(w)
    \/ \E w \in Writers : Rename(w)

SpecFS == InitFS /\ [][NextFS]_vars

\* ------------------------------------------------ the snapshot of the store
\* const priority = { permission: 1, waiting: 2, idle: 3, busy: 4 }; ?? 5
Priority(state) ==
    CASE state = "permission" -> 1
      [] state = "waiting" -> 2
      [] state = "idle" -> 3
      [] state = "busy" -> 4
      [] OTHER -> 5

\* mutant: inside a band the older record goes first
Compare_OldestFirst(a, b) ==
    IF Priority(a.state) # Priority(b.state)
    THEN Priority(a.state) - Priority(b.state)
    ELSE a.last_update - b.last_update

\* the comparator of sessions.sort(): negative (a first), zero or positive
Compare(a, b) ==
    IF Priority(a.state) # Priority(b.state)
    THEN Priority(a.state) - Priority(b.state)
    ELSE b.last_update - a.last_update

\* Array.prototype.sort is stable: an element goes before the first element it
\* compares less than, and after every element it compares equal to
RECURSIVE InsertSorted(_, _)
InsertSorted(sorted, x) ==
    IF sorted = <<>> THEN <<x>>
    ELSE IF Compare(x, Head(sorted)) < 0 THEN <<x>> \o sorted
    ELSE <<Head(sorted)>> \o InsertSorted(Tail(sorted), x)

RECURSIVE SortSessions(_)
SortSessions(sessions) ==
    IF sessions = <<>> THEN <<>>
    ELSE InsertSorted(SortSessions(SubSeq(sessions, 1, Len(sessions) - 1)),
                      sessions[Len(sessions)])

\* the loop of getAllSessions over the files readdirSync lists: a file that
\* does not end with ".json" or does not parse is skipped
RECURSIVE ReadSessions(_, _)
ReadSessions(f, files) ==
    IF files = <<>> THEN <<>>
    ELSE IF EndsWithJson(Head(files)) /\ existsSync(f, Head(files))
            /\ JSONparse(f[Head(files)]) # ParseError
         THEN <<JSONparse(f[Head(files)])>> \o ReadSessions(f, Tail(files))
         ELSE ReadSessions(f, Tail(files))

\* the orders in which readdirSync can list the files of a directory
RECURSIVE Orders(_)
Orders(names) ==
    IF names = {} THEN {<<>>}
    ELSE UNION { { <<n>> \o rest : rest \in Orders(names \ {n}) } : n \in names }

\* the sessions directory itself: present, missing (and then whether mkdirSync
\* can create it) or unreadable (readdirSync throws)
DirPresent == [dir |-> "present", creatable |-> TRUE]

\* ensureSessionsDir(): TRUE when mkdirSync throws
EnsureThrows(d) == d.dir = "missing" /\ ~d.creatable

\* the directory after ensureSessionsDir()
ensureSessionsDir(d) ==
    IF d.dir = "missing" /\ d.creatable THEN DirPresent ELSE d

\* getAllSessions(): what it returns when files is what readdirSync lists
getAllSessions(f, d, files) ==
    IF d.dir # "present" THEN <<>> ELSE SortSessions(ReadSessions(f, files))

\* ------------------------------- the stores the snapshot is taken of
\* a stored record with the fields the snapshot depends on
StoredSession(id, pid, tmux, state, t) ==
    [v |-> SCHEMA_VERSION, id |-> id, pid |-> pid, cwd |-> "/a", tmux_target |-> tmux,
     window_name |-> Null, state |-> state, current_action |-> Null,
     prompt_text |-> Null, last_update |-> t]

\* a file that JSON.parse rejects: a record cut short
CorruptFile == <<"{", "\"v\":", "1">>

\* what the file of a session can hold: a record in any state, with or
\* without a terminal target, stamped first or last; for the third session a
\* record or a corrupt file
FileContents(id) ==
    IF id = "s3"
    THEN {CorruptFile}
         \cup { JSONstringify(StoredSession(id, 0, tmux, state, MaxClock)) :
                  tmux \in TmuxTargets \cup {Null}, state \in {"permission", "busy"} }
    ELSE { JSONstringify(StoredSession(id, 0, tmux, state, t)) :
             tmux \in TmuxTargets \cup {Null},
             state \in {"permission", "waiting", "idle", "busy"}, t \in {0, MaxClock} }

SnapshotIds == {"s1", "s2", "s3"}

\* the sessions directories with files for some of the sessions
Stores ==
    UNION { [ {getSessionPath(id) : id \in ids} -> UNION {FileContents(id) : id \in ids} ]
              : ids \in SUBSET SnapshotIds }

WellFormedStore(f) ==
    \A id \in SnapshotIds :
        existsSync(f, getSessionPath(id)) => f[getSessionPath(id)] \in FileContents(id)

\* nothing returned yet
NoSnapshot == [by |-> "none", threw |-> FALSE, status |-> "none", result |-> <<>>]

\* the snapshot is taken after every stored record was written
InitSnapshot ==
    /\ fs \in {f \in Stores : WellFormedStore(f)}
    /\ now = MaxClock + 1
    /\ ev = Event("init", Null, Nothing, 0, EmptyDir, EmptyDir)
    /\ proc \in {DirPresent}
                \cup (IF fs = EmptyDir
                      THEN [dir : {"missing"}, creatable : BOOLEAN] ELSE {})
                \cup (IF Cardinality(DOMAIN fs) = 1
                      THEN [dir : {"unreadable"}, creatable : {TRUE}] ELSE {})
    /\ obs = NoSnapshot
    /\ hist = NoHist

\* a call of getAllSessions(); ensureSessionsDir() runs before its try block
GetAllSessions ==
    \E files \in Orders(DOMAIN fs) :
        /\ proc' = ensureSessionsDir(proc)
        /\ obs' = IF EnsureThrows(proc)
                  THEN [NoSnapshot EXCEPT !.by = "getAllSessions", !.threw = TRUE]
                  ELSE [NoSnapshot EXCEPT !.by = "getAllSessions",
                                          !.result = getAllSessions(fs, proc', files)]
        /\ ev' = Event("getAllSessions", Null, Nothing, 0, fs, fs)
        /\ UNCHANGED <<fs, now, hist>>

\* ------------------------------------------- the server's GET /api/sessions
\* what the detector finds in the pane of a terminal target
DetectorResults == {"none", "interrupted", "declined"}

\* `null` where a SessionUpdate is expected
NoUpdate == [null |-> TRUE]

\* checkForInterruption(target): the update for a pane that shows a fresh
\* interruption or a declined prompt, null otherwise. Its source is not among
\* the files of src/ (pane.ts there ends with detectRecentInterruption); the
\* update is the one the specification gives for the reconciliation step:
\* {state: idle, currentAction: null, promptText: null}
checkForInterruption(signal) ==
    IF signal \in {"interrupted", "declined"}
    THEN SessionUpdate("idle", Null, Null, Undefined, Undefined)
    ELSE NoUpdate

\* a loop that does not look at the listed state
RECURSIVE SyncFrom_AlsoIdle(_, _, _, _)
SyncFrom_AlsoIdle(f, sessions, signals, t) ==
    IF sessions = <<>> THEN f
    ELSE LET session == Head(sessions)
             update == checkForInterruption(signals[session.tmux_target])
         IN  SyncFrom_AlsoIdle(IF Truthy(session.tmux_target) /\ update # NoUpdate
                               THEN updateSession(f, session.id, update, t) ELSE f,
                               Tail(sessions), signals, t)

\* a loop that ends after the first session listed
SyncFrom_FirstOnly(f, sessions, signals, t) ==
    IF sessions = <<>> THEN f
    ELSE LET session == Head(sessions)
             update == checkForInterruption(signals[session.tmux_target])
         IN  IF Truthy(session.tmux_target) /\ update # NoUpdate /\ session.state # "idle"
             THEN updateSession(f, session.id, update, t) ELSE f

\* the loop of syncSessionStates / checkPanes over the sessions listed
RECURSIVE SyncFrom(_, _, _, _)
SyncFrom(f, sessions, signals, t) ==
    IF sessions = <<>> THEN f
    ELSE LET session == Head(sessions)
             update == checkForInterruption(signals[session.tmux_target])
         IN  SyncFrom(IF Truthy(session.tmux_target) /\ update # NoUpdate
                         /\ session.state # "idle"
                      THEN updateSession(f, session.id, update, t) ELSE f,
                      Tail(sessions), signals, t)

\* getAllSessions().filter((s) => s.tmux_target)
WithTarget(sessions) == SelectSeq(sessions, LAMBDA s : Truthy(s.tmux_target))

syncSessionStates(f, d, files, signals, t) ==
    SyncFrom(f, WithTarget(getAllSessions(f, d, files)), signals, t)

\* byTarget.set(session.tmux_target, session): a key that is set again keeps
\* its place in the Map
SetTarget(byTarget, session) ==
    IF \E k \in 1 .. Len(byTarget) : byTarget[k].tmux_target = session.tmux_target
    THEN [k \in 1 .. Len(byTarget) |->
             IF byTarget[k].tmux_target = session.tmux_target
             THEN session ELSE byTarget[k]]
    ELSE Append(byTarget, session)

\* byTarget.get(session.tmux_target)
GetTarget(byTarget, target) ==
    IF \E k \in 1 .. Len(byTarget) : byTarget[k].tmux_target = target
    THEN byTarget[CHOOSE k \in 1 .. Len(byTarget) : byTarget[k].tmux_target = target]
    ELSE NullSession

RECURSIVE DedupFrom(_, _, _)
DedupFrom(sessions, byTarget, noTarget) ==
    IF sessions = <<>> THEN byTarget \o noTarget
    ELSE LET session == Head(sessions)
             existing == GetTarget(byTarget, session.tmux_target)
         IN  IF ~Truthy(session.tmux_target)
             THEN DedupFrom(Tail(sessions), byTarget, Append(noTarget, session))
             ELSE IF existing = NullSession \/ session.last_update > existing.last_update
             THEN DedupFrom(Tail(sessions), SetTarget(byTarget, session), noTarget)
             ELSE DedupFrom(Tail(sessions), byTarget, noTarget)

\* a server that answers with every record it lists
deduplicateByTmuxTarget_KeepAll(sessions) == sessions

deduplicateByTmuxTarget(sessions) == DedupFrom(sessions, <<>>, <<>>)

\* what getPaneTitle(target) returns
PaneTitles == {"zsh"}

\* sessions.map((s) => ({...s, pane_title: ...}))
Enriched(sessions, title) ==
    [k \in 1 .. Len(sessions) |->
        [field \in DOMAIN sessions[k] \cup {"pane_title"} |->
            IF field # "pane_title" THEN sessions[k][field]
            ELSE IF Truthy(sessions[k].tmux_target) THEN title ELSE Null]]

\* a GET /api/sessions request: syncSessionStates(), getAllSessions(), the
\* pane titles, the deduplication; an exception becomes the 500 response. The
\* updates of syncSessionStates are to different sessions, so the order of
\* its listing does not show in the directory it leaves.
GetApiSessions ==
    \E files \in Orders(DOMAIN fs), signals \in [TmuxTargets -> DetectorResults],
       title \in PaneTitles :
        /\ proc' = ensureSessionsDir(proc)
        /\ fs' = IF EnsureThrows(proc) THEN fs
                 ELSE syncSessionStates(fs, proc', files, signals, now)
        /\ \E sessions \in {getAllSessions(fs', proc', files)} :
           \E enrichedSessions \in {Enriched(sessions, title)} :
             obs' = IF EnsureThrows(proc)
                    THEN [NoSnapshot EXCEPT !.by = "GET /api/sessions", !.status = "500"]
                    ELSE [NoSnapshot EXCEPT
                            !.by = "GET /api/sessions", !.status = "200",
                            !.result = deduplicateByTmuxTarget(enrichedSessions)]
        /\ ev' = Event("GET /api/sessions", Null,
                       [Nothing EXCEPT !.tool = signals], 0, fs, fs')
        /\ UNCHANGED <<now, hist>>

NextSnapshot ==
    \/ GetAllSessions
    \/ GetApiSessions

SpecSnapshot == InitSnapshot /\ [][NextSnapshot]_vars

\* ------------------------------------- the app's periodic cleanup and check
\* isPidAlive(pid): process.kill(pid, 0) succeeds for the processes alive
isPidAlive(alive, pid) == pid \in alive

\* a cleanup that leaves the files that do not parse
RECURSIVE CleanupFrom_KeepsCorrupt(_, _, _)
CleanupFrom_KeepsCorrupt(f, files, alive) ==
    IF files = <<>> THEN f
    ELSE LET file == Head(files)
             session == JSONparse(f[file])
         IN  CleanupFrom_KeepsCorrupt(
                 IF ~EndsWithJson(file) THEN f
                 ELSE IF session = ParseError THEN f
                 ELSE IF session.pid > 0 /\ ~isPidAlive(alive, session.pid)
                      THEN unlinkSync(f, file)
                 ELSE f,
                 Tail(files), alive)

\* a cleanup that leaves the records of dead processes
RECURSIVE CleanupFrom_KeepsDead(_, _, _)
CleanupFrom_KeepsDead(f, files, alive) ==
    IF files = <<>> THEN f
    ELSE LET file == Head(files)
             session == JSONparse(f[file])
         IN  CleanupFrom_KeepsDead(
                 IF ~EndsWithJson(file) THEN f
                 ELSE IF session = ParseError THEN unlinkSync(f, file)
                 ELSE f,
                 Tail(files), alive)

\* a cleanup that does not ask whether the process is alive
RECURSIVE CleanupFrom_AnyPid(_, _, _)
CleanupFrom_AnyPid(f, files, alive) ==
    IF files = <<>> THEN f
    ELSE LET file == Head(files)
             session == JSONparse(f[file])
         IN  CleanupFrom_AnyPid(
                 IF ~EndsWithJson(file) THEN f
                 ELSE IF session = ParseError THEN unlinkSync(f, file)
                 ELSE IF session.pid > 0 THEN unlinkSync(f, file)
                 ELSE f,
                 Tail(files), alive)

\* the loop of cleanupStaleSessions over the files readdirSync listed: a file
\* that does not parse is removed, a record is removed when its pid is known
\* and its process is gone
RECURSIVE CleanupFrom(_, _, _)
CleanupFrom(f, files, alive) ==
    IF files = <<>> THEN f
    ELSE LET file == Head(files)
             session == JSONparse(f[file])
         IN  CleanupFrom(
                 IF ~EndsWithJson(file) THEN f
                 ELSE IF session = ParseError THEN unlinkSync(f, file)
                 ELSE IF session.pid > 0 /\ ~isPidAlive(alive, session.pid)
                      THEN unlinkSync(f, file)
                 ELSE f,
                 Tail(files), alive)

\* the directory after cleanupStaleSessions(), d being the sessions directory
\* after ensureSessionsDir()
cleanupStaleSessions(f, d, files, alive) ==
    IF d.dir # "present" THEN f ELSE CleanupFrom(f, files, alive)

\* a check that does not look at the listed state
checkPanes_AlsoIdle(f, d, files, signals, t) ==
    IF EnsureThrows(d) THEN f
    ELSE SyncFrom_AlsoIdle(f, WithTarget(getAllSessions(f, ensureSessionsDir(d), files)),
                           signals, t)

\* the directory after one run of checkPanes; an exception is swallowed
checkPanes(f, d, files, signals, t) ==
    IF EnsureThrows(d) THEN f
    ELSE SyncFrom(f, WithTarget(getAllSessions(f, ensureSessionsDir(d), files)), signals, t)

\* a stored record as a hook leaves it: busy with an action, asking for a
\* permission with its prompt
AppSession(id, pid, tmux, state) ==
    [StoredSession(id, pid, tmux, state, 0) EXCEPT
        !.current_action = IF state = "busy" THEN "Thinking..." ELSE Null,
        !.prompt_text = IF state = "permission" THEN "Allow?" ELSE Null]

\* what the file of a session can hold when the app's timers fire
AppContents(id) ==
    { JSONstringify(AppSession(id, pid, tmux, state)) :
        pid \in Pids, tmux \in TmuxTargets \cup {Null},
        state \in {"permission", "idle", "busy"} }
    \cup (IF id = "s2" THEN {CorruptFile} ELSE {})

AppStores ==
    UNION { { f \in [ {getSessionPath(id) : id \in ids} ->
                        UNION {AppContents(id) : id \in ids} ] :
                \A id \in ids : f[getSessionPath(id)] \in AppContents(id) }
              : ids \in SUBSET SessionIds }

\* the timers fire after the stored records were written
InitApp ==
    /\ fs \in AppStores
    /\ now = MaxClock
    /\ ev = Event("init", Null, Nothing, 0, EmptyDir, EmptyDir)
    /\ proc = DirPresent
    /\ obs = NoSnapshot
    /\ hist = NoHist

\* the cleanup timer: one call of cleanupStaleSessions(), which returns the
\* number of files it removed
CleanupStaleSessions ==
    \E files \in Orders(DOMAIN fs), alive \in SUBSET (Pids \ {0}) :
        /\ proc' = ensureSessionsDir(proc)
        /\ fs' = IF EnsureThrows(proc) THEN fs
                 ELSE cleanupStaleSessions(fs, proc', files, alive)
        /\ obs' = [NoSnapshot EXCEPT !.by = "cleanupStaleSessions",
                                     !.result = <<Cardinality(DOMAIN fs \ DOMAIN fs')>>]
        /\ ev' = Event("cleanupStaleSessions", Null,
                       [Nothing EXCEPT !.tool = alive], 0, fs, fs')
        /\ UNCHANGED <<now, hist>>

\* the pane timer: one run of checkPanes; status tells whether it wrote
CheckPanes ==
    \E files \in Orders(DOMAIN fs), signals \in [TmuxTargets -> DetectorResults] :
        /\ proc' = ensureSessionsDir(proc)
        /\ fs' = checkPanes(fs, proc, files, signals, now)
        /\ obs' = [NoSnapshot EXCEPT
                     !.by = "checkPanes",
                     !.status = IF fs' = fs THEN "unchanged" ELSE "updated"]
        /\ ev' = Event("checkPanes", Null,
                       [Nothing EXCEPT !.tool = signals], 0, fs, fs')
        /\ UNCHANGED <<now, hist>>

\* a call of getSession(id), as the server makes for GET /api/sessions/:id
GetSessionById ==
    \E id \in SessionIds :
        /\ obs' = [NoSnapshot EXCEPT !.by = "getSession",
                                     !.result = <<getSession(fs, id)>>]
        /\ ev' = Event("getSession", id, Nothing, 0, fs, fs)
        /\ UNCHANGED <<fs, now, proc, hist>>

\* the timers of the app, and the hooks of sessions that start and end
NextApp ==
    \/ CleanupStaleSessions
    \/ CheckPanes
    \/ HandleSessionStart
    \/ HandleSessionEnd

SpecApp == InitApp /\ [][NextApp]_vars

\* the readers of a store that holds a corrupt file: the poll that lists the
\* sessions, a lookup of one session, and the cleanup timer
NextReaders ==
    \/ GetAllSessions
    \/ GetSessionById
    \/ CleanupStaleSessions

SpecReaders == InitApp /\ [][NextReaders]_vars

\* ------------------------------ the detector of interruptions in pane text
\* The markers of pane.ts that are outside ASCII are written in ASCII here:
\* five hyphens for the five box-drawing dashes (U+2500) a separator line
\* starts with, an asterisk for the bullet (U+25CF) and a greater-than sign
\* for the prompt glyph (U+276F) an interaction starts with.
Separator == "-----"
Bullet == "*"
PromptGlyph == ">"

\* lines.slice(-5)
BottomWindow == 5

\* str.includes(sub), sub not empty
Includes(str, sub) ==
    \E i \in 1 .. Len(str) - Len(sub) + 1 : SubSeq(str, i, i + Len(sub) - 1) = sub

\* the positions of the line feeds of content
LineFeeds(content) == {i \in 1 .. Len(content) : CharAt(content, i) = "\n"}

\* content.split('\n')
Split(content) ==
    LET feeds == LineFeeds(content)
        \* the k-th line feed; 0 before the first, Len + 1 after the last
        Feed(k) == IF k = 0 THEN 0
                   ELSE IF k > Cardinality(feeds) THEN Len(content) + 1
                   ELSE CHOOSE i \in feeds : Cardinality({j \in feeds : j < i}) = k - 1
    IN  [k \in 1 .. Cardinality(feeds) + 1 |->
            SubSeq(content, Feed(k - 1) + 1, Feed(k) - 1)]

\* lines.join('\n')
RECURSIVE Join(_)
Join(lines) ==
    IF lines = <<>> THEN ""
    ELSE IF Len(lines) = 1 THEN lines[1]
    ELSE lines[1] \o "\n" \o Join(Tail(lines))

\* lines.slice(-n)
SliceLast(lines, n) ==
    SubSeq(lines, IF Len(lines) > n THEN Len(lines) - n + 1 ELSE 1, Len(lines))

\* the backward scans: the last line up to line upTo that starts with the
\* separator / with an interaction glyph; 0 when there is none (lines are
\* counted from 1 here, from 0 in the source, where none is -1)
LastSeparator(lines, upTo) ==
    IF \E i \in 1 .. upTo : StartsWith(lines[i], Separator)
    THEN CHOOSE i \in 1 .. upTo :
            /\ StartsWith(lines[i], Separator)
            /\ \A j \in i + 1 .. upTo : ~StartsWith(lines[j], Separator)
    ELSE 0

IsInteractionStart(line) == StartsWith(line, Bullet) \/ StartsWith(line, PromptGlyph)

\* a scan that gives up after the two lines above the top separator
LastInteractionStart_Windowed(lines, upTo) ==
    IF \E i \in 1 .. upTo : i > upTo - 2 /\ IsInteractionStart(lines[i])
    THEN CHOOSE i \in 1 .. upTo :
            /\ i > upTo - 2
            /\ IsInteractionStart(lines[i])
            /\ \A j \in i + 1 .. upTo : ~IsInteractionStart(lines[j])
    ELSE 0

LastInteractionStart(lines, upTo) ==
    IF \E i \in 1 .. upTo : IsInteractionStart(lines[i])
    THEN CHOOSE i \in 1 .. upTo :
            /\ IsInteractionStart(lines[i])
            /\ \A j \in i + 1 .. upTo : ~IsInteractionStart(lines[j])
    ELSE 0

\* a detection that looks for the signals in all of the pane above the top
\* separator
DetectInLines_FromTop(lines) ==
    LET bottomSepIdx == LastSeparator(lines, Len(lines))
        topSepIdx == LastSeparator(lines, bottomSepIdx - 1)
        interactionStartIdx == LastInteractionStart(lines, topSepIdx - 1)
        slice == Join(SubSeq(lines, 1, topSepIdx - 1))
    IN  IF bottomSepIdx = 0 THEN Null
        ELSE IF topSepIdx = 0 THEN Null
        ELSE IF interactionStartIdx = 0 THEN Null
        ELSE IF Includes(slice, "Interrupted") THEN "interrupted"
        ELSE IF Includes(slice, "User declined to answer") THEN "declined"
        ELSE Null

\* a detection that takes a single separator for both separators
DetectInLines_OneSeparator(lines) ==
    LET bottomSepIdx == LastSeparator(lines, Len(lines))
        topSepIdx == IF LastSeparator(lines, bottomSepIdx - 1) = 0 THEN bottomSepIdx
                     ELSE LastSeparator(lines, bottomSepIdx - 1)
        interactionStartIdx == LastInteractionStart(lines, topSepIdx - 1)
        slice == Join(SubSeq(lines, interactionStartIdx, topSepIdx - 1))
    IN  IF bottomSepIdx = 0 THEN Null
        ELSE IF interactionStartIdx = 0 THEN Null
        ELSE IF Includes(slice, "Interrupted") THEN "interrupted"
        ELSE IF Includes(slice, "User declined to answer") THEN "declined"
        ELSE Null

\* the detection on the lines of a pane, past the check of the bottom lines
DetectInLines(lines) ==
    LET bottomSepIdx == LastSeparator(lines, Len(lines))
        topSepIdx == LastSeparator(lines, bottomSepIdx - 1)
        interactionStartIdx == LastInteractionStart(lines, topSepIdx - 1)
        slice == Join(SubSeq(lines, interactionStartIdx, topSepIdx - 1))
    IN  IF bottomSepIdx = 0 THEN Null
        ELSE IF topSepIdx = 0 THEN Null
        ELSE IF interactionStartIdx = 0 THEN Null
        ELSE IF Includes(slice, "Interrupted") THEN "interrupted"
        ELSE IF Includes(slice, "User declined to answer") THEN "declined"
        ELSE Null

\* a detector without the check of the bottom lines
detectRecentInterruption_NoActiveCheck(content) ==
    IF content = "" THEN Null ELSE DetectInLines(Split(content))

detectRecentInterruption(content) ==
    IF content = "" THEN Null
    ELSE LET lines == Split(content)
             bottomLines == Join(SliceLast(lines, BottomWindow))
         IN  IF Includes(bottomLines, "Esc to cancel")
                \/ Includes(bottomLines, "Esc to interrupt")
             THEN Null
             ELSE DetectInLines(lines)

\* the lines a captured pane is made of: a separator, a tool call and a
\* prompt of the user that start an interaction, the two signals, the two
\* markers of an active pane
MaxLines == 5

PaneLines ==
    {Separator, "* Bash(ls)", "> Interrupted", "  Interrupted",
     "  User declined to answer", "Esc to interrupt", "  Esc to cancel"}

\* what capturePaneContent can return: the text of up to MaxLines lines
PaneTexts == { Join(lines) : lines \in UNION { [1 .. n -> PaneLines] : n \in 0 .. MaxLines } }

\* nothing detected yet in the pane captured
InitDetector ==
    /\ fs = EmptyDir
    /\ now = 0
    /\ ev = Event("init", Null, Nothing, 0, EmptyDir, EmptyDir)
    /\ proc \in [pane : PaneTexts]
    /\ obs = NoSnapshot
    /\ hist = NoHist

\* a call of detectRecentInterruption on the pane captured
DetectRecentInterruption ==
    /\ obs' = [NoSnapshot EXCEPT !.by = "detectRecentInterruption",
                                 !.status = detectRecentInterruption(proc.pane)]
    /\ ev' = Event("detectRecentInterruption", Null, Nothing, 0, fs, fs)
    /\ UNCHANGED <<fs, now, proc, hist>>

NextDetector == DetectRecentInterruption

SpecDetector == InitDetector /\ [][NextDetector]_vars

\* ------------------------------------- the life of one session, end to end
\* the events the agent sends for a session that runs one shell command
Scenario ==
    <<"SessionStart", "UserPromptSubmit", "PreToolUse", "PostToolUse", "Stop", "SessionEnd">>

\* the stdin JSON of the k-th event of the scenario
ScenarioInput(k) ==
    HookInput("s1", "/a",
              IF Scenario[k] = "PreToolUse"
              THEN [tool_name |-> "Bash",
                    tool_input |-> [command |-> "npm test", file_path |-> Undefined]]
              ELSE NoTool)

\* the scenario starts on any store: empty, with a record left of the
\* session, with another session's record
InitScenario ==
    /\ fs \in AppStores
    /\ now = MaxClock
    /\ ev = Event("init", Null, Nothing, 0, EmptyDir, EmptyDir)
    /\ proc = [step |-> 0]
    /\ obs = NoSnapshot
    /\ hist = NoHist

\* one run of main() for the next event of the scenario, in whatever
\* terminal and with whatever agent pid getClaudePid() finds
ScenarioStep ==
    \E pid \in Pids, env \in HookEnvs :
        /\ proc.step < Len(Scenario)
        /\ proc' = [step |-> proc.step + 1]
        /\ \E input \in {ScenarioInput(proc'.step)} :
           \E event \in {ResolveEvent(Scenario[proc'.step], Undefined)} :
             /\ fs' = Dispatch(event, fs, input, pid, env[1], env[2], now)
             /\ ev' = Event(event, input.session_id,
                            [pid |-> pid, cwd |-> input.cwd, tmux |-> env[1],
                             wname |-> env[2], tool |-> input.tool_name], 0, fs, fs')
        /\ UNCHANGED <<now, obs, hist>>

NextScenario == ScenarioStep

SpecScenario == InitScenario /\ [][NextScenario]_vars

\* ------------------------------------------- hooks in a changing terminal
\* the hooks start on an empty store
InitHooks ==
    /\ fs = EmptyDir
    /\ now = MaxClock
    /\ ev = Event("init", Null, Nothing, 0, EmptyDir, EmptyDir)
    /\ proc = NoProc
    /\ obs = NoObs
    /\ hist = NoHist

\* one run of main() for a recognised event, in whatever terminal the hook's
\* process is in: getTmuxTarget() and getWindowName() are looked up anew in
\* every run, getClaudePid() in handleSessionStart only. Sessions start and
\* end for every id, the events in between are drawn for the ids of EventIds.
RunHook ==
    \E event \in ResolvedEvents \cap EventKinds, input \in StartInputs,
       pid \in Pids, env \in HookEnvs :
        /\ event \notin {"session-start", "session-end"}
              => input.session_id \in EventIds
        /\ fs' = Dispatch(event, fs, input, pid, env[1], env[2], now)
        /\ ev' = Event(event, input.session_id,
                       [pid |-> IF event = "session-start" THEN pid ELSE 0,
                        cwd |-> input.cwd, tmux |-> env[1], wname |-> env[2],
                        tool |-> Null], 0, fs, fs')
        /\ UNCHANGED <<now, proc, obs, hist>>

NextHooks == RunHook

SpecHooks == InitHooks /\ [][NextHooks]_vars

\* ------------------------------------------------ every writer of the store
\* the store is empty before the first session starts
InitLifecycle ==
    /\ fs = EmptyDir
    /\ now = MaxClock
    /\ ev = Event("init", Null, Nothing, 0, EmptyDir, EmptyDir)
    /\ proc = DirPresent
    /\ obs = NoSnapshot
    /\ hist = NoHist

\* the hook's process is outside tmux, or in a pane of a named window
LifecycleEnvs == {<<Null, Null>>, <<"main:0.1", "vim">>}

\* one run of main() for a recognised event: sessions start and end for every
\* id, the events in between are drawn for the ids of EventIds
LifecycleEvent ==
    \E event \in ResolvedEvents \cap EventKinds, input \in StartInputs,
       pid \in {0, 1}, env \in LifecycleEnvs :
        /\ event \notin {"session-start", "session-end"}
              => input.session_id \in EventIds
        \* getClaudePid() is called by handleSessionStart only
        /\ event # "session-start" => pid = 0
        /\ fs' = Dispatch(event, fs, input, pid, env[1], env[2], now)
        /\ ev' = Event(event, input.session_id, Nothing, 0, fs, fs')
        /\ UNCHANGED <<now, proc, obs, hist>>

\* upsertSession with any state of SessionState, or with none
UpsertAnyState ==
    \E state \in {"busy", "idle", "waiting", "permission", Undefined} :
        /\ fs' = upsertSession(fs, SessionInput("s1", 1, "/a", Undefined, Undefined,
                                                state, Undefined, Undefined), now)
        /\ ev' = Event("upsert", "s1", [Nothing EXCEPT !.tool = state], 0, fs, fs')
        /\ UNCHANGED <<now, proc, obs, hist>>

\* updateSession with any state of SessionState, or with none
UpdateAnyState ==
    \E state \in {"busy", "idle", "waiting", "permission", Undefined} :
        /\ fs' = updateSession(fs, "s1", SessionUpdate(state, Undefined, Undefined,
                                                       Undefined, Undefined), now)
        /\ ev' = Event("update", "s1", [Nothing EXCEPT !.tool = state], 0, fs, fs')
        /\ UNCHANGED <<now, proc, obs, hist>>

\* the hooks of the sessions, the calls of the store's API, the pane check
\* and the cleanup of the application, in any order
NextLifecycle ==
    \/ LifecycleEvent
    \/ UpsertAnyState
    \/ UpdateAnyState
    \/ DeleteSession
    \/ CheckPanes
    \/ CleanupStaleSessions

SpecLifecycle == InitLifecycle /\ [][NextLifecycle]_vars

\* ------------------------------------------- the description of a tool call
\* tool names as the agent sends them: its own tools, a tool the switch does
\* not know, and tools of MCP servers (mcp__<server>__<tool>), among them a
\* shell and a file tool
ToolNames ==
    {"Bash", "Read", "Edit", "Write", "Grep", "Glob", "Task", "WebFetch",
     "mcp__ide__getDiagnostics", "mcp__ide__Bash", "mcp__ide__Read"}

\* commands of 8, 29, 30, 31 and 46 characters, the empty command and none
Commands ==
    {Undefined, "", "npm test",
     "git log --oneline --graph -29",
     "git log --oneline --graph -n30",
     "git log --oneline --graph -n 31",
     "find . -name '*.ts' -newer package.json -print"}

FilePaths == {Undefined, "/a/b.ts", "b.ts"}

InitFormat ==
    /\ fs = EmptyDir
    /\ now = 0
    /\ ev = Event("init", Null, Nothing, 0, EmptyDir, EmptyDir)
    /\ proc \in [tool_name : ToolNames,
                  tool_input : [command : Commands, file_path : FilePaths]]
    /\ obs = NoSnapshot
    /\ hist = NoHist

\* one call of formatToolAction(input.tool_name, input.tool_input)
FormatToolAction ==
    /\ obs.by = "none"
    /\ obs' = [NoSnapshot EXCEPT !.by = "formatToolAction",
                                 !.status = formatToolAction(proc.tool_name,
                                                             proc.tool_input)]
    /\ ev' = Event("formatToolAction", Null, Nothing, 0, fs, fs)
    /\ UNCHANGED <<fs, now, proc, hist>>

NextFormat == FormatToolAction

SpecFormat == InitFormat /\ [][NextFormat]_vars

\* ----------------------------------------------- the lock of the dashboard
\* Instances of the dashboard (runTui) as processes on ~/.claude-watch, a
\* system call per step. Each instance is started once; its pid and its
\* version are its own.
Instances == {"i1", "i2"}

InstancePid == [i \in Instances |-> IF i = "i1" THEN 1 ELSE 2]

Versions == {"0.1.0", "0.2.0"}

LockFile == "claude-watch.lock"

\* JSON.stringify({ pid, tmux_target, version })
LockStringify(lock) ==
    <<"{", "\"pid\":", ToString(lock.pid),
      "\"tmux_target\":", "\"", lock.tmux_target, "\"",
      "\"version\":", "\"", lock.version, "\"", "}">>

\* JSON.parse(readFileSync(lockFile, "utf-8"))
LockParse(text) ==
    IF /\ Len(text) = 12
       /\ text[1] = "{" /\ text[2] = "\"pid\":" /\ IsNumberToken(text[3])
       /\ text[4] = "\"tmux_target\":" /\ text[5] = "\"" /\ text[7] = "\""
       /\ text[8] = "\"version\":" /\ text[9] = "\"" /\ text[11] = "\""
       /\ text[12] = "}"
    THEN [pid |-> NumberOf(text[3]), tmux_target |-> text[6], version |-> text[10]]
    ELSE ParseError

\* the pids of the instances that run
AlivePids(p) == {InstancePid[i] : i \in {j \in Instances : p[j].pc \notin {"off", "done"}}}

\* what the check of the lock file finds: "running" (a live instance of this
\* version holds the lock), "restart" (a live instance of another version
\* holds it) or "proceed" (no lock, a lock that does not parse, a lock
\* without a pid or with the pid of a dead process)
LockCheck(f, alive, version) ==
    IF ~existsSync(f, LockFile) THEN "proceed"
    ELSE LET lock == LockParse(f[LockFile])
         IN  IF lock = ParseError THEN "proceed"
             ELSE IF lock.pid # 0 /\ isPidAlive(alive, lock.pid)
                  THEN IF lock.version = version THEN "running" ELSE "restart"
             ELSE "proceed"

\* no instance runs; the directory holds no lock, or what an earlier run left
InitLock ==
    /\ fs \in {EmptyDir, [n \in {LockFile} |-> CorruptFile]}
    /\ now = 0
    /\ ev = Event("init", Null, Nothing, 0, EmptyDir, EmptyDir)
    /\ proc \in [Instances -> [pc : {"off"}, version : Versions]]
    /\ obs = NoSnapshot
    /\ hist = NoHist

\* claude-watch is started in the watch session
StartTui(i) ==
    /\ proc[i].pc = "off"
    /\ proc' = [proc EXCEPT ![i].pc = "started"]
    /\ ev' = Event("start", i, Nothing, 0, fs, fs)
    /\ UNCHANGED <<fs, now, obs, hist>>

\* the check of the lock file: exit when a live instance of this version
\* holds it, SIGTERM to a live instance of another version, proceed otherwise
CheckLock(i) ==
    /\ proc[i].pc = "started"
    /\ \E found \in {LockCheck(fs, AlivePids(proc), proc[i].version)} :
         /\ proc' = [j \in Instances |->
                       IF j = i
                       THEN [proc[j] EXCEPT !.pc = IF found = "running" THEN "done"
                                                   ELSE "checked"]
                       ELSE IF found = "restart"
                               /\ InstancePid[j] = LockParse(fs[LockFile]).pid
                            THEN [proc[j] EXCEPT !.pc = "done"]
                       ELSE proc[j]]
         /\ ev' = Event("checkLock", i, [Nothing EXCEPT !.tool = found], 0, fs, fs)
    /\ UNCHANGED <<fs, now, obs, hist>>

\* writeFileSync(lockFile, JSON.stringify({ pid: process.pid, ... }))
WriteLock(i) ==
    /\ proc[i].pc = "checked"
    /\ fs' = writeFileSync(fs, LockFile,
                           LockStringify([pid |-> InstancePid[i],
                                          tmux_target |-> "watch:1.1",
                                          version |-> proc[i].version]))
    /\ proc' = [proc EXCEPT ![i].pc = "locked"]
    /\ ev' = Event("writeLock", i, Nothing, 0, fs, fs')
    /\ UNCHANGED <<now, obs, hist>>

\* render(React.createElement(App))
Render(i) ==
    /\ proc[i].pc = "locked"
    /\ proc' = [proc EXCEPT ![i].pc = "rendering"]
    /\ ev' = Event("render", i, Nothing, 0, fs, fs)
    /\ UNCHANGED <<fs, now, obs, hist>>

\* the user quits: waitUntilExit() resolves and the finally block unlinks
\* the lock file, whatever it holds
Quit(i) ==
    /\ proc[i].pc = "rendering"
    /\ fs' = IF existsSync(fs, LockFile) THEN unlinkSync(fs, LockFile) ELSE fs
    /\ proc' = [proc EXCEPT ![i].pc = "done"]
    /\ ev' = Event("quit", i, Nothing, 0, fs, fs')
    /\ UNCHANGED <<now, obs, hist>>

\* the process is killed: the finally block does not run and the lock stays
Killed(i) ==
    /\ proc[i].pc = "rendering"
    /\ proc' = [proc EXCEPT ![i].pc = "done"]
    /\ ev' = Event("killed", i, Nothing, 0, fs, fs)
    /\ UNCHANGED <<fs, now, obs, hist>>

NextLock ==
    \E i \in Instances :
        \/ StartTui(i)
        \/ CheckLock(i)
        \/ WriteLock(i)
        \/ Render(i)
        \/ Quit(i)
        \/ Killed(i)

SpecLock == InitLock /\ [][NextLock]_vars

\* ------------------------------------------ the hooks in settings.json
\* A HooksConfig is a function from event names to sequences of matchers; a
\* matcher is [matcher, hooks], hooks a sequence of [type, command].
Hook(command) == [type |-> "command", command |-> command]

\* getClaudeWatchHooks(), for two of its events: one with a single matcher
\* and Notification with a matcher per kind of notification
getClaudeWatchHooks ==
    [eventName \in {"Stop", "Notification"} |->
        IF eventName = "Stop"
        THEN << [matcher |-> Undefined,
                 hooks |-> <<Hook("node dist/claude-watch-hook.js stop")>>] >>
        ELSE << [matcher |-> "idle_prompt",
                 hooks |-> <<Hook("node dist/claude-watch-hook.js notification-idle")>>],
                [matcher |-> "permission_prompt",
                 hooks |-> <<Hook("node dist/claude-watch-hook.js notification-permission")>>] >>]

\* matcher.hooks.some((h) => h.command.includes("claude-watch-hook"))
HasClaudeWatchHook(matcher) ==
    \E k \in 1 .. Len(matcher.hooks) :
        Includes(matcher.hooks[k].command, "claude-watch-hook")

\* matchers.filter((m) => !m.hooks.some(...))
WithoutClaudeWatch(matchers) ==
    SelectSeq(matchers, LAMBDA m : ~HasClaudeWatchHook(m))

\* a merge that appends the new matchers to whatever is there
mergeHooks_AppendOnly(existing, newHooks) ==
    [eventName \in DOMAIN existing \cup DOMAIN newHooks |->
        IF eventName \notin DOMAIN newHooks THEN existing[eventName]
        ELSE (IF eventName \notin DOMAIN existing THEN <<>>
              ELSE existing[eventName])
             \o newHooks[eventName]]

\* existing is the empty function for undefined
mergeHooks(existing, newHooks) ==
    [eventName \in DOMAIN existing \cup DOMAIN newHooks |->
        IF eventName \notin DOMAIN newHooks THEN existing[eventName]
        ELSE (IF eventName \notin DOMAIN existing THEN <<>>
              ELSE WithoutClaudeWatch(existing[eventName]))
             \o newHooks[eventName]]

removeClaudeWatchHooks(hooks) ==
    [eventName \in {e \in DOMAIN hooks : Len(WithoutClaudeWatch(hooks[e])) > 0} |->
        WithoutClaudeWatch(hooks[eventName])]

\* the commands of the hooks a settings file holds before setup: a hook of
\* the user, and the hook of an earlier installation of claude-watch
ExistingCommands == {"lint.sh", "node old/claude-watch-hook.js stop"}

MaxHooks == 2
MaxMatchers == 2

ExistingMatchers ==
    { [matcher |-> Undefined, hooks |-> h] :
        h \in UNION { [1 .. n -> {Hook(c) : c \in ExistingCommands}] : n \in 1 .. MaxHooks } }

\* the events of the settings file: one that claude-watch hooks too, and one
\* it does not
ExistingEvents == {"Stop", "PostCompact"}

ExistingConfigs ==
    UNION { [events -> UNION { [1 .. n -> ExistingMatchers] : n \in 0 .. MaxMatchers }]
              : events \in SUBSET ExistingEvents }

InitInstall ==
    /\ fs = EmptyDir
    /\ now = 0
    /\ ev = Event("init", Null, Nothing, 0, EmptyDir, EmptyDir)
    /\ \E existing \in ExistingConfigs : proc = [existing |-> existing, hooks |-> existing]
    /\ obs = NoSnapshot
    /\ hist = NoHist

\* installHooks() and saveClaudeSettings(newSettings)
InstallHooks ==
    /\ proc' = [proc EXCEPT !.hooks = mergeHooks(@, getClaudeWatchHooks)]
    /\ ev' = Event("installHooks", Null, Nothing, 0, fs, fs)
    /\ UNCHANGED <<fs, now, obs, hist>>

\* uninstallHooks()
UninstallHooks ==
    /\ proc' = [proc EXCEPT !.hooks = removeClaudeWatchHooks(@)]
    /\ ev' = Event("uninstallHooks", Null, Nothing, 0, fs, fs)
    /\ UNCHANGED <<fs, now, obs, hist>>

NextInstall ==
    \/ InstallHooks
    \/ UninstallHooks

SpecInstall == InitInstall /\ [][NextInstall]_vars

\* ------------------------------------- the cleanup pass, a file per step
\* cleanupStaleSessions() as a process: readdirSync lists the directory, then
\* each listed file is read, checked and, when stale, unlinked before the next
\* one is read. Beside it one writer process runs calls on the record of
\* EventIds: hooks of the agent while the agent lives, and the update of the
\* pane check. obs holds the pass (pc, the files still to visit), the agent
\* processes that are alive, and whether the pass has removed a file that an
\* earlier visit had removed already.
GcIdle == [pc |-> "idle", files |-> <<>>, alive |-> Pids \ {0}, gone |-> {},
           again |-> FALSE]

\* the hooks of a running agent that update its record, and the update the
\* pane check sends for an interrupted session
InFlightCalls ==
    { Call(kind, input.session_id,
           [input |-> input, pid |-> 1, tmux |-> Null, wname |-> Null]) :
        kind \in {"permission-request", "stop"}, input \in PlainInputs }
    \cup { Call("update", id, SessionUpdate("idle", Null, Null, Undefined, Undefined)) :
             id \in EventIds }

\* the records the sessions directory holds when the pass starts: the busy
\* record of the agent with pid 1, and for the other session a record of the
\* agent with pid 2, a record without a pid, a corrupt file or nothing
GcStores ==
    { [n \in {"s1.json"} |-> JSONstringify(AppSession("s1", 1, "main:0.1", "busy"))] }
    \cup { [n \in {"s1.json", "s2.json"} |->
               IF n = "s1.json"
               THEN JSONstringify(AppSession("s1", 1, "main:0.1", "busy"))
               ELSE other ] :
             other \in { JSONstringify(AppSession("s2", 2, Null, "idle")),
                         JSONstringify(AppSession("s2", 0, Null, "idle")),
                         CorruptFile } }

InitGC ==
    /\ fs \in GcStores
    /\ now = MaxClock
    /\ ev = Event("init", Null, Nothing, 0, EmptyDir, EmptyDir)
    /\ proc = [w \in Writers |-> IF w = "w1" THEN Ready ELSE Off]
    /\ obs = GcIdle
    /\ hist = NoHist

\* an agent process dies
Die ==
    \E pid \in obs.alive :
        /\ obs' = [obs EXCEPT !.alive = @ \ {pid}]
        /\ UNCHANGED <<fs, now, ev, proc, hist>>

\* the head of a hook of the living agent, or of updateSession in the pane
\* check for a record that is not idle: the record is read; the call ends
\* here when there is none
CallInFlight(w) ==
    \E call \in InFlightCalls :
        /\ proc[w].pc = "ready"
        /\ call.kind \in EventKinds => call.given.pid \in obs.alive
        /\ \E session \in {getSession(fs, call.id)} :
             /\ call.kind = "update" => session # NullSession /\ session.state # "idle"
             /\ proc' = [proc EXCEPT ![w] =
                           IF session = NullSession THEN Ready
                           ELSE [pc |-> "open", call |-> call,
                                 rec |-> Written(call, session, now),
                                 fd |-> "none", failed |-> FALSE]]
        /\ UNCHANGED <<fs, now, ev, obs, hist>>

\* the timer fires: ensureSessionsDir() and readdirSync(sessionsDir)
GcList ==
    \E files \in Orders(DOMAIN fs) :
        /\ obs.pc = "idle"
        /\ obs' = [obs EXCEPT !.pc = IF files = <<>> THEN "idle" ELSE "scan",
                              !.files = files]
        /\ ev' = Event("gcList", Null, Nothing, 0, fs, fs)
        /\ UNCHANGED <<fs, now, proc, hist>>

\* the body of the loop for the next listed file: a file that is gone by now
\* makes readFileSync and then unlinkSync throw, which is ignored
GcVisit ==
    /\ obs.pc = "scan"
    /\ \E file \in {Head(obs.files)} :
         /\ fs' = IF existsSync(fs, file)
                  THEN CleanupFrom(fs, <<file>>, obs.alive) ELSE fs
         /\ obs' = [obs EXCEPT !.pc = IF Tail(obs.files) = <<>> THEN "idle" ELSE "scan",
                               !.files = Tail(obs.files),
                               !.gone = @ \cup (DOMAIN fs \ DOMAIN fs'),
                               !.again = @ \/ (DOMAIN fs \ DOMAIN fs') \cap obs.gone # {}]
         /\ proc' = IF fs' = fs THEN proc ELSE AfterUnlink(proc)
         /\ ev' = Event("gcVisit", SessionIdOf(file), [Nothing EXCEPT !.tool = obs.alive],
                        0, fs, fs')
    /\ UNCHANGED <<now, hist>>

NextGC ==
    \/ Die
    \/ CallInFlight("w1")
    \/ OpenTmp("w1")
    \/ WriteTmp("w1")
    \/ Rename("w1")
    \/ GcList
    \/ GcVisit

SpecGC == InitGC /\ [][NextGC]_vars

\* the cleanup timer keeps firing and a pass and a call that have started
\* run to their end
FairGC ==
    /\ SpecGC
    /\ WF_vars(GcList)
    /\ WF_vars(GcVisit)
    /\ WF_vars(OpenTmp("w1"))
    /\ WF_vars(WriteTmp("w1"))
    /\ WF_vars(Rename("w1"))

\* ------------------------------- one reconciliation tick over several panes
\* the terminal targets of two sessions in different panes
TickTargets == {"main:0.1", "main:0.2"}

\* a pane that cannot be captured: the multiplexer is not running, the target
\* is gone or the command fails
CaptureFailed == "capture-failed"

\* a pane of the tick: it cannot be captured, or it can and the detector
\* finds what its text shows
PaneOutcomes == {CaptureFailed} \cup DetectorResults

\* a capture whose failure reads as an interrupted pane
capturePaneContent_FailureInterrupts(pane) ==
    IF pane = CaptureFailed THEN "interrupted" ELSE pane

\* capturePaneContent(target): null when not in tmux or when execSync
\* throws, the pane's text otherwise
capturePaneContent(pane) ==
    IF pane = CaptureFailed THEN Null ELSE pane

\* what checkForInterruption makes of the capture: no content, no signal
PaneSignal(pane) ==
    IF capturePaneContent(pane) = Null THEN "none" ELSE capturePaneContent(pane)

\* two records in different panes, written by hooks before the tick
TickStores ==
    { [file \in {"s1.json", "s2.json"} |->
          IF file = "s1.json"
          THEN JSONstringify(AppSession("s1", 1, "main:0.1", st1))
          ELSE JSONstringify(AppSession("s2", 2, tmux2, st2))] :
        st1 \in {"permission", "idle", "busy"},
        st2 \in {"permission", "idle", "busy"},
        tmux2 \in {"main:0.2", Null} }

InitTick ==
    /\ fs \in TickStores
    /\ now = MaxClock
    /\ ev = Event("init", Null, Nothing, 0, EmptyDir, EmptyDir)
    /\ proc = DirPresent
    /\ obs = NoSnapshot
    /\ hist = NoHist

\* one run of checkPanes over panes of which some cannot be captured
PaneTick ==
    \E files \in Orders(DOMAIN fs), panes \in [TickTargets -> PaneOutcomes] :
        /\ proc' = ensureSessionsDir(proc)
        /\ fs' = checkPanes(fs, proc, files,
                            [target \in TickTargets |-> PaneSignal(panes[target])], now)
        /\ obs' = [NoSnapshot EXCEPT
                     !.by = "checkPanes",
                     !.status = IF fs' = fs THEN "unchanged" ELSE "updated"]
        /\ ev' = Event("checkPanes", Null,
                       [Nothing EXCEPT !.tool = panes], 0, fs, fs')
        /\ UNCHANGED <<now, hist>>

\* a hook of the session in the first pane makes it busy again
TickHook ==
    /\ fs' = [fs EXCEPT !["s1.json"] =
                 JSONstringify(AppSession("s1", 1, "main:0.1", "busy"))]
    /\ obs' = NoSnapshot
    /\ ev' = Event("UserPromptSubmit", "s1", Nothing, 0, fs, fs')
    /\ UNCHANGED <<now, proc, hist>>

NextTick ==
    \/ PaneTick
    \/ TickHook

SpecTick == InitTick /\ [][NextTick]_vars

\* ------------------------------------ reconciliation ticks that keep firing
\* the lifecycle events of a session between its start and its end that the
\* panes' agents send while the ticks fire
TickEvents == {"user-prompt-submit", "permission-request", "notification-permission", "stop"}

\* what the two panes show, and whether the first pane has come to rest: from
\* then on it keeps showing the interruption and its agent sends no event.
\* Both agents are at work when the ticks begin.
InitReconcile ==
    /\ fs \in {f \in TickStores : \A file \in DOMAIN f : JSONparse(f[file]).state = "busy"}
    /\ now = MaxClock
    /\ ev = Event("init", Null, Nothing, 0, EmptyDir, EmptyDir)
    /\ proc = [panes |-> [target \in TickTargets |-> "none"], settled |-> FALSE,
               due |-> FALSE]
    /\ obs = NoSnapshot
    /\ hist = NoHist

\* a pane shows something else; the first pane only until it has come to rest
PaneChanges ==
    \E target \in TickTargets, outcome \in PaneOutcomes :
        /\ target = "main:0.1" => ~proc.settled
        /\ proc.panes[target] # outcome
        /\ proc' = [proc EXCEPT !.panes[target] = outcome]
        /\ UNCHANGED <<fs, now, ev, obs, hist>>

\* the user has interrupted the agent of the first pane and leaves it alone
Settle ==
    /\ ~proc.settled
    /\ proc.panes["main:0.1"] \in {"interrupted", "declined"}
    /\ proc' = [proc EXCEPT !.settled = TRUE]
    /\ UNCHANGED <<fs, now, ev, obs, hist>>

\* one run of main() for an event of a session, in the pane of its record;
\* the session of the first pane sends none once the pane has come to rest
TickLifecycleEvent ==
    \E event \in TickEvents, id \in SessionIds :
        /\ id = "s1" => ~proc.settled
        /\ getSession(fs, id) # NullSession
        /\ fs' = Dispatch(event, fs, HookInput(id, "/a", NoTool), 0,
                          getSession(fs, id).tmux_target, Null, now)
        /\ obs' = NoSnapshot
        /\ UNCHANGED <<now, ev, proc, hist>>

\* setInterval(checkPanes, PANE_CHECK_INTERVAL): the interval has passed
TimerFires ==
    /\ ~proc.due
    /\ proc' = [proc EXCEPT !.due = TRUE]
    /\ UNCHANGED <<fs, now, ev, obs, hist>>

\* the callback of the timer: one run of checkPanes on what the panes show
ReconcileTick ==
    \E files \in Orders(DOMAIN fs) :
        /\ proc.due
        /\ proc' = [proc EXCEPT !.due = FALSE]
        /\ fs' = checkPanes(fs, DirPresent, files,
                            [target \in TickTargets |-> PaneSignal(proc.panes[target])], now)
        /\ obs' = [NoSnapshot EXCEPT
                     !.by = "checkPanes",
                     !.status = IF fs' = fs THEN "unchanged" ELSE "updated"]
        /\ UNCHANGED <<now, ev, hist>>

NextReconcile ==
    \/ TimerFires
    \/ PaneChanges
    \/ Settle
    \/ TickLifecycleEvent
    \/ ReconcileTick

SpecReconcile == InitReconcile /\ [][NextReconcile]_vars

\* the step of the callback as the timer sees it: a run that was due is done.
\* checkPanes has no precondition, so the steps of ReconcileTick are the
\* steps of SpecReconcile that are TickRuns steps, and one is possible
\* whenever a run is due.
TickRuns ==
    /\ proc.due
    /\ proc' = [proc EXCEPT !.due = FALSE]

\* the timer keeps firing and a run that is due is made
FairReconcile == SpecReconcile /\ WF_proc(TimerFires) /\ WF_proc(TickRuns)

\* --------------------------------------- the hook and its data directory
\* ~/.claude-watch and ~/.claude-watch/sessions, and whether debug.log exists
NoDataDir == [watch |-> FALSE, sessions |-> FALSE, log |-> FALSE]

\* appendFileSync(DEBUG_LOG_PATH, ...) creates the file, not its directory:
\* it throws ENOENT when ~/.claude-watch is missing
debugLogThrows(d) == ~d.watch

debugLog(d) == [d EXCEPT !.log = TRUE]

\* the hook's ensureSessionsDir(): mkdirSync(SESSIONS_DIR, {recursive: true})
HookEnsureSessionsDir(d) == [d EXCEPT !.watch = TRUE, !.sessions = TRUE]

\* the exit codes of a run whose catch block throws in its turn: the promise
\* of main() is rejected and not handled, which ends the process with code 1,
\* or with a warning and code 0 on a Node.js older than 15
UnhandledExits == {0, 1}

\* main() of the hook: the first statement after the read of stdin is a
\* debugLog, and so is the first statement of the catch block; the handlers
\* reach ensureSessionsDir only in writeSession
HookMain(event, f, d, input, pid, tmux, wname, t) ==
    IF debugLogThrows(d)
    THEN [fs |-> f, dir |-> d, exits |-> UnhandledExits]
    ELSE LET after == Dispatch(event, f, input, pid, tmux, wname, t)
         IN  [fs |-> after,
              dir |-> IF event = "session-start" \/ after # f
                      THEN HookEnsureSessionsDir(debugLog(d)) ELSE debugLog(d),
              exits |-> {0}]

\* the hook can fire before the dashboard has ever run
InitFirstRun ==
    /\ fs = EmptyDir
    /\ now = MaxClock
    /\ ev = Event("init", Null, Nothing, 0, EmptyDir, EmptyDir)
    /\ proc = NoDataDir
    /\ obs = NoSnapshot
    /\ hist = NoHist

\* runTui, runServe: the data directories are created if needed
CreateDataDirs ==
    /\ ~proc.sessions
    /\ proc' = [proc EXCEPT !.watch = TRUE, !.sessions = TRUE]
    /\ ev' = Event("runTui", Null, Nothing, 0, fs, fs)
    /\ UNCHANGED <<fs, now, obs, hist>>

\* the user removes ~/.claude-watch, or its sessions directory only
RemoveDataDirs ==
    /\ proc.watch
    /\ \E whole \in BOOLEAN :
         proc' = IF whole THEN NoDataDir ELSE [proc EXCEPT !.sessions = FALSE]
    /\ proc' # proc
    /\ fs' = EmptyDir
    /\ ev' = Event("rm -r", Null, Nothing, 0, fs, fs')
    /\ UNCHANGED <<now, obs, hist>>

\* one run of the hook for a recognised event
MainOnDataDir ==
    \E event \in ResolvedEvents \cap EventKinds, input \in StartInputs,
       pid \in Pids, env \in HookEnvs :
    \E run \in {HookMain(event, fs, proc, input, pid, env[1], env[2], now)} :
    \E exit \in run.exits :
        /\ event \notin {"session-start", "session-end"}
              => input.session_id \in EventIds
        /\ fs' = run.fs
        /\ proc' = run.dir
        /\ ev' = Event(event, input.session_id,
                       [pid |-> IF event = "session-start" THEN pid ELSE 0,
                        cwd |-> input.cwd, tmux |-> env[1], wname |-> env[2],
                        tool |-> proc], exit, fs, fs')
        /\ UNCHANGED <<now, obs, hist>>

NextFirstRun ==
    \/ CreateDataDirs
    \/ RemoveDataDirs
    \/ MainOnDataDir

SpecFirstRun == InitFirstRun /\ [][NextFirstRun]_vars

\* =============================================================== claims
\* the record of session id in the store, NullSession if there is none
Record(id) == readSession(fs, id)

C4_NoRecordNoOp ==
    [][(/\ ev'.kind \in EventKinds \ {"session-start"}
        /\ readSession(fs, ev'.id) = NullSession)
       => (fs' = fs /\ ev'.exit = 0)]_vars

C4_Witness ==
    /\ ev.kind = "stop"
    /\ ~ev.had
    /\ Record(ev.id) = NullSession
    /\ \E id \in SessionIds \ {ev.id} : Record(id) # NullSession

C7_DeleteIdempotent ==
    [][ev'.kind = "delete"
       => /\ getSession(fs', ev'.id) = NullSession
          /\ \A id \in SessionIds \ {ev'.id} : getSession(fs', id) = getSession(fs, id)
          /\ (getSession(fs, ev'.id) = NullSession => fs' = fs)
          /\ deleteSession(fs', ev'.id) = fs']_vars

C7_Witness ==
    /\ ev.kind = "delete"
    /\ ev.given.repeat
    /\ ~ev.had
    /\ \E id \in SessionIds \ {ev.id} : getSession(fs, id) # NullSession

\* C9 (under SpecStore): updateSession on an existing record sets each field
\* the update gives (to null when it gives null) and lastUpdate, and leaves
\* v, id, pid, cwd and every field the update does not give as they were.
C9_UpdateExactFields ==
    [][(ev'.kind = "update" /\ getSession(fs, ev'.id) # NullSession)
       => LET old == getSession(fs, ev'.id)
              new == getSession(fs', ev'.id)
          IN  /\ new # NullSession
              /\ \A field \in UpdateFields :
                     new[field] = IF ev'.given[field] # Undefined
                                  THEN ev'.given[field] ELSE old[field]
              /\ \A field \in {"v", "id", "pid", "cwd"} : new[field] = old[field]
              /\ new.last_update = now]_vars

C9_Witness ==
    /\ ev.kind = "update"
    /\ ev.had
    /\ ev.given.current_action = Null
    /\ ev.given.state = "idle"
    /\ getSession(fs, ev.id) # NullSession
    /\ getSession(fs, ev.id).current_action = Null
    /\ getSession(fs, ev.id).tmux_target # Null
    /\ getSession(fs, ev.id).pid = 1

\* C10 as claimed (under SpecStore): upsertSession on an id without a record,
\* called without a state, creates a record whose state is idle and whose
\* unset optional fields are null.
C10_NewRecordIdle ==
    (ev.kind = "upsert" /\ ~ev.had /\ ev.given.state = Undefined)
    => /\ getSession(fs, ev.id) # NullSession
       /\ getSession(fs, ev.id).state = "idle"
       /\ \A field \in {"tmux_target", "window_name", "current_action", "prompt_text"} :
              ev.given[field] = Undefined => getSession(fs, ev.id)[field] = Null

\* C10 as amended (under SpecStore): upsertSession on an id without a record,
\* called without a state, creates a record whose state is busy and whose
\* unset optional fields are null.
C10_NewRecordBusy ==
    (ev.kind = "upsert" /\ ~ev.had /\ ev.given.state = Undefined)
    => /\ getSession(fs, ev.id) # NullSession
       /\ getSession(fs, ev.id).state = "busy"
       /\ \A field \in {"tmux_target", "window_name", "current_action", "prompt_text"} :
              ev.given[field] = Undefined => getSession(fs, ev.id)[field] = Null

C10_Witness ==
    /\ ev.kind = "upsert"
    /\ ~ev.had
    /\ \A field \in UpdateFields : ev.given[field] = Undefined
    /\ getSession(fs, ev.id) # NullSession
    /\ getSession(fs, ev.id).state = "busy"
    /\ getSession(fs, ev.id).tmux_target = Null

\* C1 (under SpecFS1): while a single writer writes, every file a reader reads
\* is a session file ("<id>.json", never the temporary "<id>.json.tmp"), and
\* what it reads is the complete record of the last completed write (nothing
\* once the record is deleted), never a partial or unparsable one.
C1_ReaderSeesCompletedWrite ==
    obs.file # Null
    => /\ EndsWithJson(obs.file)
       /\ obs.file \in {id \o ".json" : id \in SessionIds}
       /\ obs.got # ParseError
       /\ obs.got = obs.committed

C1_Witness ==
    /\ obs.by = "getAllSessions"
    /\ obs.got # NullSession
    /\ obs.got # ParseError
    /\ obs.during = "rename"
    /\ proc["w1"].pc = "rename"
    /\ proc["w1"].rec # obs.got
    /\ existsSync(fs, TmpPath(proc["w1"].call.id))

\* C2 as claimed (under SpecFS): when two writers write the same session id
\* concurrently, no write fails and the stored record is never torn,
\* truncated or unparsable.
C2_ConcurrentWritersSafe ==
    /\ \A w \in Writers : ~proc[w].failed
    /\ \A id \in EventIds :
           existsSync(fs, getSessionPath(id))
           => JSONparse(fs[getSessionPath(id)]) # ParseError

\* C8 as claimed (under SpecFS): once a delete of a session id has completed,
\* no record for it exists until a call that creates records (SessionStart,
\* upsertSession) runs for it.
C8_NoRecordAfterDelete ==
    hist.deleted => \A id \in EventIds : ~existsSync(fs, getSessionPath(id))

\* the optional fields of a SessionInput
OptionalFields == {"tmux_target", "window_name", "state", "current_action", "prompt_text"}

\* C11 as claimed (under SpecStore): upsertSession on an id that has a record
\* gives every field of the input, an optional field given as null included,
\* the input's value, and leaves every optional field the input does not give
\* as the record had it.
C11_UpsertMerges ==
    [][(ev'.kind = "upsert" /\ getSession(fs, ev'.id) # NullSession)
       => LET old == getSession(fs, ev'.id)
              new == getSession(fs', ev'.id)
          IN  /\ new # NullSession
              /\ new.pid = ev'.given.pid
              /\ new.cwd = ev'.given.cwd
              /\ \A field \in OptionalFields :
                     new[field] = IF ev'.given[field] # Undefined
                                  THEN ev'.given[field] ELSE old[field]]_vars

\* C12 as claimed (under SpecFS): from one committed write of a session's
\* record to the next, lastUpdate never decreases, the clock never going back.
C12_LastUpdateMonotone ==
    [][(hist.committed # NullSession /\ hist'.committed # NullSession)
       => hist'.committed.last_update >= hist.committed.last_update]_vars

\* the bands of the snapshot, first to last
Bands == <<"permission", "waiting", "idle", "busy">>

BandOf(state) == CHOOSE k \in 1 .. Len(Bands) : Bands[k] = state

\* band order, and descending lastUpdate inside a band
InBandOrder(sessions) ==
    \A i, j \in 1 .. Len(sessions) :
        i < j => \/ BandOf(sessions[i].state) < BandOf(sessions[j].state)
                 \/ /\ sessions[i].state = sessions[j].state
                    /\ sessions[i].last_update >= sessions[j].last_update

\* the records of the store that parse
ReadableRecords ==
    { JSONparse(fs[file]) : file \in {n \in DOMAIN fs : JSONparse(fs[n]) # ParseError} }

Stored(r) == [field \in DOMAIN r \ {"pane_title"} |-> r[field]]

\* the response of the last GET /api/sessions, as a set of stored records
Answered == {Stored(obs.result[i]) : i \in 1 .. Len(obs.result)}

Answer200 == obs.by = "GET /api/sessions" /\ obs.status = "200"

\* C14 (under SpecSnapshot): in the response of GET /api/sessions, of the
\* records that share a non-null terminal target exactly one is kept and it
\* has the greatest lastUpdate among them; every record without a target is
\* kept; nothing else is in the response.
C14_DedupKeepsNewest ==
    (Answer200 /\ proc.dir = "present")
    => /\ Answered \subseteq ReadableRecords
       /\ \A r \in ReadableRecords :
            /\ ~Truthy(r.tmux_target) => r \in Answered
            /\ Truthy(r.tmux_target) =>
                 \E kept \in Answered :
                    /\ kept.tmux_target = r.tmux_target
                    /\ kept.last_update >= r.last_update
       /\ \A i, j \in 1 .. Len(obs.result) :
            (i # j /\ Truthy(obs.result[i].tmux_target))
            => obs.result[i].tmux_target # obs.result[j].tmux_target

C14_Witness ==
    /\ Answer200
    /\ Cardinality(ReadableRecords) = 3
    /\ \E r1, r2, r3 \in ReadableRecords :
         /\ Truthy(r1.tmux_target) /\ r2.tmux_target = r1.tmux_target
         /\ r1.last_update > r2.last_update
         /\ ~Truthy(r3.tmux_target)
         /\ r1 \in Answered /\ r2 \notin Answered /\ r3 \in Answered
    /\ Len(obs.result) = 2

\* C15 (under SpecSnapshot): the response of GET /api/sessions is in band
\* order permission, waiting, idle, busy with descending lastUpdate inside
\* a band, also when records with and without a terminal target are mixed.
C15_ResponseInBandOrder == Answer200 => InBandOrder(obs.result)

\* C16 as claimed (under SpecSnapshot): getAllSessions() and the handler of
\* GET /api/sessions leave the stored records, all of their fields included,
\* as they were.
C16_SnapshotNoMutation ==
    [][ev'.kind \in {"getAllSessions", "GET /api/sessions"} => fs' = fs]_vars

\* the record that syncSessionStates leaves of a record it writes to
Interrupted(old, t) ==
    [old EXCEPT !.state = "idle", !.current_action = Null, !.prompt_text = Null,
                !.last_update = t]

\* C16 amended (under SpecSnapshot): getAllSessions() leaves every file of
\* the store as it was; the handler of GET /api/sessions adds and removes no
\* file, and changes a record only by the write of syncSessionStates: the
\* record has a terminal target whose pane shows an interruption, it was not
\* idle, and it becomes idle with no action, no prompt and a new lastUpdate.
C16_OnlySyncWrites ==
    [][/\ ev'.kind = "getAllSessions" => fs' = fs
       /\ ev'.kind = "GET /api/sessions"
          => /\ DOMAIN fs' = DOMAIN fs
             /\ \A file \in DOMAIN fs :
                  fs'[file] # fs[file]
                  => LET old == JSONparse(fs[file])
                     IN  /\ old # ParseError
                         /\ Truthy(old.tmux_target)
                         /\ ev'.given.tool[old.tmux_target] \in {"interrupted", "declined"}
                         /\ old.state # "idle"
                         /\ JSONparse(fs'[file]) = Interrupted(old, now)]_vars

\* a GET /api/sessions has written to a record: its lastUpdate is later than
\* that of every record the store started with
C16_Witness ==
    /\ Answer200
    /\ \E r \in ReadableRecords :
         /\ r.last_update = MaxClock + 1
         /\ r.state = "idle"
         /\ ev.given.tool[r.tmux_target] = "interrupted"
    /\ \E r \in ReadableRecords : r.last_update <= MaxClock

\* C17 (under SpecSnapshot): getAllSessions() never throws; whatever the
\* condition of the sessions directory and of its files, it returns a list.
C17_SnapshotNeverThrows == obs.by = "getAllSessions" => ~obs.threw

ActiveMarkerAtBottom(content) ==
    LET lines == Split(content)
    IN  \E k \in 1 .. Len(lines) :
            /\ k > Len(lines) - BottomWindow
            /\ \/ Includes(lines[k], "Esc to interrupt")
               \/ Includes(lines[k], "Esc to cancel")

\* C20 (under SpecDetector): when one of the last five lines of the pane
\* text contains 'Esc to interrupt' or 'Esc to cancel',
\* detectRecentInterruption returns null, whatever separator lines and
\* whatever 'Interrupted' or 'User declined to answer' text the pane holds.
C20_ActiveMarkerGivesNone ==
    (obs.by = "detectRecentInterruption" /\ proc.pane # ""
        /\ ActiveMarkerAtBottom(proc.pane))
    => obs.status = Null

\* null was returned for a pane that shows an interruption between an
\* interaction start and the two separators, with the marker below them
C20_Witness ==
    /\ obs.by = "detectRecentInterruption"
    /\ obs.status = Null
    /\ proc.pane = Join(<<"* Bash(ls)", "  Interrupted", Separator, Separator,
                          "Esc to interrupt">>)
    /\ ActiveMarkerAtBottom(proc.pane)
    /\ DetectInLines(Split(proc.pane)) = "interrupted"

\* the pane of the last call of detectRecentInterruption, line by line
Detected == obs.by = "detectRecentInterruption"

CapturedLines == Split(proc.pane)

\* the lines of the pane that are separators
SeparatorLines == {i \in 1 .. Len(CapturedLines) : StartsWith(CapturedLines[i], Separator)}

\* the separator above the last one, 0 when there are fewer than two
TopSeparator ==
    IF Cardinality(SeparatorLines) < 2 THEN 0
    ELSE CHOOSE i \in SeparatorLines : Cardinality({j \in SeparatorLines : j > i}) = 1

\* the lines above the top separator that start an interaction
StartsAboveTop == {i \in 1 .. TopSeparator - 1 : IsInteractionStart(CapturedLines[i])}

\* some line of the pane holds one of the two signals
SignalSomewhere ==
    \E i \in 1 .. Len(CapturedLines) :
        \/ Includes(CapturedLines[i], "Interrupted")
        \/ Includes(CapturedLines[i], "User declined to answer")

\* C21 (under SpecDetector): detectRecentInterruption returns null for a
\* pane text with fewer than two separator lines and for a pane text with
\* no interaction-start line above the top separator, whatever signal and
\* marker text it holds.
C21_NoStructureGivesNone ==
    (Detected /\ (Cardinality(SeparatorLines) < 2 \/ StartsAboveTop = {}))
    => obs.status = Null

\* null was returned for an idle pane that shows an interruption after an
\* interaction start, above a single separator
C21_Witness ==
    /\ Detected
    /\ obs.status = Null
    /\ proc.pane = Join(<<"* Bash(ls)", "  Interrupted", Separator, "> Interrupted">>)
    /\ Cardinality(SeparatorLines) = 1
    /\ SignalSomewhere
    /\ ~ActiveMarkerAtBottom(proc.pane)

\* the most recent interaction block: the lines from the last interaction
\* start above the top separator up to the top separator
InteractionBlock ==
    IF StartsAboveTop = {} THEN {}
    ELSE LET start == CHOOSE i \in StartsAboveTop : \A j \in StartsAboveTop : j <= i
         IN  start .. TopSeparator - 1

\* what the interaction block shows
BlockSignal ==
    IF \E i \in InteractionBlock : Includes(CapturedLines[i], "Interrupted")
    THEN "interrupted"
    ELSE IF \E i \in InteractionBlock : Includes(CapturedLines[i], "User declined to answer")
    THEN "declined"
    ELSE Null

\* C22 (under SpecDetector): for a pane with no active marker in its bottom
\* lines, with two separators and an interaction start above the top one,
\* detectRecentInterruption returns 'interrupted' when the most recent
\* interaction block (interaction start to top separator) contains
\* 'Interrupted', else 'declined' when it contains 'User declined to
\* answer', else null; text above the block and below the top separator
\* does not count.
C22_BlockDecides ==
    (Detected /\ ~ActiveMarkerAtBottom(proc.pane) /\ StartsAboveTop # {})
    => obs.status = BlockSignal

\* 'declined' was returned for a block that shows a declined prompt, with
\* 'Interrupted' in the prompt area below the top separator
C22_Witness ==
    /\ Detected
    /\ obs.status = "declined"
    /\ proc.pane = Join(<<"* Bash(ls)", "  User declined to answer", Separator,
                          "> Interrupted", Separator>>)
    /\ InteractionBlock = 1 .. 2

\* the widest window above the top separator that a pane of MaxLines lines
\* can tell from no window: an interaction start, the window, two separators
InteractionWindow == MaxLines - 3

\* no line of the window above the top separator starts an interaction
NoStartInWindow ==
    \A i \in StartsAboveTop : i < TopSeparator - InteractionWindow

\* C23 as claimed (under SpecDetector): the interaction start is looked for
\* in a window of a fixed number of lines above the top separator only;
\* with no interaction start inside the window the result is null, an
\* interaction start with 'Interrupted' farther above notwithstanding.
C23_StartWithinWindow ==
    (Detected /\ NoStartInWindow) => obs.status = Null

\* C23 amended (under SpecDetector): the interaction start is the nearest
\* line above the top separator that starts with an interaction glyph,
\* however far above; when it lies above the window the result is still
\* what its block shows, and the result is null for want of an interaction
\* start only when no line above the top separator starts one.
C23_NearestStartAtAnyDistance ==
    (Detected /\ ~ActiveMarkerAtBottom(proc.pane) /\ NoStartInWindow)
    => /\ StartsAboveTop # {} => obs.status = BlockSignal
       /\ StartsAboveTop = {} => obs.status = Null

\* 'interrupted' was returned for an interaction that starts above the window
C23_Witness ==
    /\ Detected
    /\ obs.status = "interrupted"
    /\ proc.pane = Join(<<"* Bash(ls)", "  Interrupted", "  User declined to answer",
                          Separator, Separator>>)
    /\ NoStartInWindow
    /\ StartsAboveTop = {1}

\* the state and the action of the record of s1
StateAndAction == <<Record("s1").state, Record("s1").current_action>>

C25_UnknownEventExitsOne ==
    [][ev'.kind = "unknown"
       => /\ ev'.given.tool \notin EventKinds
          /\ ev'.exit = 1
          /\ fs' = fs]_vars

\* the hook has exited with 1 on an event named on its command line only,
\* with records in the store
C25_Witness ==
    /\ ev.kind = "unknown"
    /\ ev.given.tool = "compact"
    /\ ev.exit = 1
    /\ Record("s1") # NullSession
    /\ Record("s2") # NullSession

\* the files of the store that do not parse
CorruptFiles == {file \in DOMAIN fs : JSONparse(fs[file]) = ParseError}

\* C26 (under SpecReaders): a file that does not parse is no record for
\* getSession (null), is left out by getAllSessions, which returns every
\* record that parses, and is removed by a pass of cleanupStaleSessions; a
\* file that parses is removed by the pass only for its dead process.
C26_CorruptRecordHandling ==
    [][/\ ev'.kind = "getSession"
          => obs'.result[1] =
                IF getSessionPath(ev'.id) \in DOMAIN fs \ CorruptFiles
                THEN JSONparse(fs[getSessionPath(ev'.id)]) ELSE NullSession
       /\ ev'.kind = "getAllSessions"
          => /\ {obs'.result[i] : i \in 1 .. Len(obs'.result)} = ReadableRecords
             /\ Len(obs'.result) = Cardinality(DOMAIN fs \ CorruptFiles)
       /\ ev'.kind = "cleanupStaleSessions"
          => /\ CorruptFiles \cap DOMAIN fs' = {}
             /\ \A file \in DOMAIN fs \ CorruptFiles :
                  file \notin DOMAIN fs'
                  => LET session == JSONparse(fs[file])
                     IN  session.pid > 0 /\ ~isPidAlive(ev'.given.tool, session.pid)
       /\ ev'.kind \in {"getSession", "getAllSessions"} => fs' = fs]_vars

\* a pass has removed the corrupt file of s2, every process being alive, and
\* has left the record of s1
C26_Witness ==
    /\ ev.kind = "cleanupStaleSessions"
    /\ ev.given.tool = Pids \ {0}
    /\ ev.removed = {"s2.json"}
    /\ obs.result = <<1>>
    /\ Record("s1") # NullSession

\* the terminal fields of the record of id before and after a step
TerminalFields(session) == <<session.tmux_target, session.window_name>>

\* the handlers that require the record to exist and update it
UpdatingEvents == EventKinds \ {"session-start", "session-end"}

\* C27 as claimed (under SpecHooks): every handler, SessionStart included, writes
\* the target and window name of the environment when there is one and keeps
\* the stored ones when there is none, so that no event replaces a stored
\* non-null target by null.
C27_EveryHandlerKeepsTarget ==
    [][\A id \in SessionIds :
         LET old == getSession(fs, id)
             new == getSession(fs', id)
         IN  (old # NullSession /\ new # NullSession)
             => /\ ev'.id = id /\ ev'.kind \in EventKinds
                   => TerminalFields(new) =
                        <<Coalesce(ev'.given.tmux, old.tmux_target),
                          Coalesce(ev'.given.wname, old.window_name)>>
                /\ old.tmux_target # Null => new.tmux_target # Null]_vars

\* C27 as amended (under SpecHooks): every handler that updates an existing record
\* writes the target and window name of the environment when there is one and
\* keeps the stored ones when there is none; SessionStart writes a new record
\* with the values of the environment, null included; a step for another
\* session leaves the fields alone.
C27_UpdatingHandlersKeepTarget ==
    [][\A id \in SessionIds :
         LET old == getSession(fs, id)
             new == getSession(fs', id)
         IN  /\ (old # NullSession /\ new # NullSession)
                => /\ ev'.id = id /\ ev'.kind \in UpdatingEvents
                      => TerminalFields(new) =
                           <<Coalesce(ev'.given.tmux, old.tmux_target),
                             Coalesce(ev'.given.wname, old.window_name)>>
                   /\ (old.tmux_target # Null /\ new.tmux_target = Null)
                      => ev'.id = id /\ ev'.kind = "session-start"
                   /\ ev'.id # id => TerminalFields(new) = TerminalFields(old)
             /\ (ev'.id = id /\ ev'.kind = "session-start")
                => TerminalFields(new) = <<ev'.given.tmux, ev'.given.wname>>]_vars

\* a Stop hook that ran outside the terminal multiplexer has left the stored
\* target and window name in the record it updated
C27_Witness ==
    /\ ev.kind = "stop"
    /\ ev.had
    /\ ev.given.tmux = Null
    /\ Record(ev.id) # NullSession
    /\ Record(ev.id).state = "idle"
    /\ Record(ev.id).tmux_target = "main:0.1"
    /\ Record(ev.id).window_name = "vim"

\* the first n characters of str
FirstChars(str, n) == SubSeq(str, 1, IF Len(str) < n THEN Len(str) ELSE n)

\* the description the claim gives for a tool call: by the tool name without
\* its namespace prefix
DescriptionByTool(toolName, toolInput) ==
    LET tool == StripMcpPrefix(toolName)
    IN  IF tool = "Bash" /\ Truthy(toolInput.command)
        THEN "Bash: " \o FirstChars(toolInput.command, 30)
             \o (IF Len(toolInput.command) > 30 THEN "..." ELSE "")
        ELSE IF tool \in {"Read", "Edit", "Write"} /\ Truthy(toolInput.file_path)
        THEN tool \o ": " \o BaseName(toolInput.file_path)
        ELSE IF tool \in {"Grep", "Glob"} THEN "Searching..."
        ELSE IF tool = "Task" THEN "Running agent..."
        ELSE "Running: " \o tool

\* C28 (under SpecFormat): formatToolAction gives the description by the tool
\* name without its namespace prefix: the command cut to 30 characters for
\* Bash, the base name for Read, Edit and Write, fixed texts for Grep, Glob
\* and Task, "Running: <tool>" otherwise; a namespaced Bash or Read is
\* described like Bash or Read.
C28_FormatsByStrippedName ==
    obs.by = "formatToolAction"
    => obs.status = DescriptionByTool(proc.tool_name, proc.tool_input)

\* the values of SessionState
SessionStates == {"busy", "idle", "waiting", "permission"}

\* C29 (under SpecLifecycle): whatever hooks, calls of the store's API, pane
\* checks and cleanup passes have run, the state of every record of the store
\* is busy, idle, waiting or permission.
C29_StateInDomain ==
    \A id \in SessionIds :
        Record(id) # NullSession => Record(id).state \in SessionStates

\* a cleanup pass has removed the record of s2 and has left the record of s1,
\* which is waiting
C29_Witness ==
    /\ ev.kind = "cleanupStaleSessions"
    /\ ev.removed = {"s2.json"}
    /\ Record("s1") # NullSession
    /\ Record("s1").state = "waiting"

\* the instances that are past the check of the lock file and run
PastLockCheck == {i \in Instances : proc[i].pc \in {"checked", "locked", "rendering"}}

\* C30 (under SpecLock): of the instances of one version at most one is past
\* the check of the lock file at any time, so that two instances started
\* together never both render.
C30_SingleInstance ==
    \A i, j \in PastLockCheck : proc[i].version = proc[j].version => i = j

\* the matchers of an event of a configuration that hold a claude-watch hook
ClaudeWatchMatchers(hooks, eventName) ==
    IF eventName \in DOMAIN hooks
    THEN {k \in 1 .. Len(hooks[eventName]) : HasClaudeWatchHook(hooks[eventName][k])}
    ELSE {}

\* C31 (under SpecInstall): an installation that follows an installation
\* leaves the configuration as it is, and after an installation every event
\* claude-watch hooks holds as many matchers with a claude-watch hook as
\* getClaudeWatchHooks gives for it.
C31_MergeIdempotent ==
    [][ev'.kind = "installHooks"
       => /\ ev.kind = "installHooks" => proc'.hooks = proc.hooks
          /\ \A eventName \in DOMAIN getClaudeWatchHooks :
                Cardinality(ClaudeWatchMatchers(proc'.hooks, eventName))
                   = Len(getClaudeWatchHooks[eventName])]_vars

\* an installation over a settings file that held a hook of the user and the
\* hook of an earlier installation for Stop: the earlier hook is replaced
C31_Witness ==
    /\ ev.kind = "installHooks"
    /\ proc.existing = [eventName \in {"Stop"} |->
                           << [matcher |-> Undefined, hooks |-> <<Hook("lint.sh")>>],
                              [matcher |-> Undefined,
                               hooks |-> <<Hook("node old/claude-watch-hook.js stop")>>] >>]
    /\ proc.hooks["Stop"] = << [matcher |-> Undefined, hooks |-> <<Hook("lint.sh")>>] >>
                              \o getClaudeWatchHooks["Stop"]
    /\ proc.hooks["Notification"] = getClaudeWatchHooks["Notification"]

\* the commands of the hooks of an event that are not claude-watch hooks
OtherCommands(hooks, eventName) ==
    IF eventName \notin DOMAIN hooks THEN {}
    ELSE { c \in UNION { { hooks[eventName][k].hooks[j].command :
                              j \in 1 .. Len(hooks[eventName][k].hooks) } :
                          k \in 1 .. Len(hooks[eventName]) } :
             ~Includes(c, "claude-watch-hook") }

\* the commands of the hooks of an event that are claude-watch hooks
ClaudeWatchCommands(hooks, eventName) ==
    IF eventName \notin DOMAIN hooks THEN {}
    ELSE { c \in UNION { { hooks[eventName][k].hooks[j].command :
                              j \in 1 .. Len(hooks[eventName][k].hooks) } :
                          k \in 1 .. Len(hooks[eventName]) } :
             Includes(c, "claude-watch-hook") }

\* C32 (under SpecInstall): an installation and a removal keep, under its
\* event, every command of the configuration that is not a claude-watch hook,
\* also one that shares a matcher with a claude-watch hook; a removal leaves
\* no claude-watch hook and drops an event only when no hook remains for it.
C32_OtherHooksPreserved ==
    [][/\ ev'.kind \in {"installHooks", "uninstallHooks"}
          => \A eventName \in DOMAIN proc.hooks :
                OtherCommands(proc.hooks, eventName)
                   \subseteq OtherCommands(proc'.hooks, eventName)
       /\ ev'.kind = "uninstallHooks"
          => \A eventName \in DOMAIN proc.hooks :
                /\ ClaudeWatchCommands(proc'.hooks, eventName) = {}
                /\ eventName \notin DOMAIN proc'.hooks
                   => OtherCommands(proc.hooks, eventName) = {}]_vars

\* a step of the pass that visits a file, and one that removes it
GcVisits == obs.pc = "scan" /\ obs'.files # obs.files

GcRemoves == GcVisits /\ DOMAIN fs' # DOMAIN fs

\* C33 as claimed (under SpecGC): a pass removes a file only when it has
\* checked every file it listed, so never while files are left to visit.
C33_CollectThenDelete ==
    [][GcRemoves => Tail(obs.files) = <<>>]_vars

\* C33 as amended (under SpecGC): a pass works on the list readdirSync gave
\* it and visits each listed file once, in order; a visit removes at most the
\* file it visits, and only a file that does not parse or whose record has a
\* pid > 0 of a dead process, whether or not files are left to visit; the
\* list is never changed by a removal.
C33_DeleteWhileScanning ==
    [][GcVisits
       => /\ obs'.files = Tail(obs.files)
          /\ DOMAIN fs \ DOMAIN fs' \subseteq {Head(obs.files)}
          /\ \A file \in DOMAIN fs' : fs'[file] = fs[file]
          /\ \A file \in DOMAIN fs \ DOMAIN fs' :
                LET session == JSONparse(fs[file])
                IN  \/ session = ParseError
                    \/ session.pid > 0 /\ session.pid \notin obs.alive]_vars

\* the pass has removed the record of s1, whose process is dead, and the
\* file of s2 is still to be visited
C33_Witness ==
    /\ ev.kind = "gcVisit"
    /\ ev.removed = {"s1.json"}
    /\ obs.pc = "scan"
    /\ obs.files = <<"s2.json">>
    /\ existsSync(fs, "s2.json")

\* the record of id belongs to an agent process that has died
DeadRecord(id) ==
    LET session == getSession(fs, id)
    IN  session # NullSession /\ session.pid > 0 /\ session.pid \notin obs.alive

\* C37 (under FairGC): a record with a pid > 0 whose process has died is
\* absent from some point on and for good, whatever hook or update for its id
\* was under way when the pass removed it.
C37_DeadRecordCollected ==
    \A id \in SessionIds : DeadRecord(id) ~> [](getSession(fs, id) = NullSession)

\* the agent of s1 is dead and the cleanup has removed the record of s1 a
\* second time, after a call that was under way had written it back
C37_Witness ==
    /\ 1 \notin obs.alive
    /\ obs.again
    /\ "s1.json" \in obs.gone
    /\ getSession(fs, "s1") = NullSession
    /\ proc["w1"].pc = "ready"

LinesAfterStart ==
    IF InteractionBlock = {} THEN {}
    ELSE InteractionBlock \ {CHOOSE i \in InteractionBlock : \A j \in InteractionBlock : i <= j}

\* C35 (under SpecDetector): marker text that occurs only on the
\* interaction-start line itself, and on no line strictly between that line
\* and the top separator, does not make detectRecentInterruption return
\* 'interrupted' or 'declined'.
C35_StartLineNotExamined ==
    (/\ Detected
     /\ \A i \in LinesAfterStart :
           /\ ~Includes(CapturedLines[i], "Interrupted")
           /\ ~Includes(CapturedLines[i], "User declined to answer"))
    => obs.status = Null

\* the first pane has come to rest on an interruption or a declined prompt
PaneAtRest ==
    /\ proc.settled
    /\ getSession(fs, "s1").tmux_target = "main:0.1"
    /\ proc.panes["main:0.1"] \in {"interrupted", "declined"}

\* the record of the first pane is idle, with no action and no prompt
ReconciledIdle ==
    /\ getSession(fs, "s1").state = "idle"
    /\ getSession(fs, "s1").current_action = Null
    /\ getSession(fs, "s1").prompt_text = Null

\* C36 (under FairReconcile): once the pane of a record with a terminal
\* target keeps showing an interruption or a declined prompt and no further
\* lifecycle event arrives for its session, the reconciliation ticks that
\* keep firing make the record idle with no action and no prompt, and it
\* stays so, whatever the other pane shows and the other session sends.
C36_InterruptedBecomesIdle == PaneAtRest ~> []ReconciledIdle

\* the pane came to rest while its record was not idle, and a tick has made
\* the record idle while the other session is busy
C36_Witness ==
    /\ PaneAtRest
    /\ ReconciledIdle
    /\ obs.by = "checkPanes"
    /\ obs.status = "updated"
    /\ getSession(fs, "s2").state = "busy"

\* the fields of the record that a call which updates a record does not set
UntouchedFields(call) ==
    IF call.kind = "update" THEN {"pid", "cwd", "tmux_target", "window_name"}
    ELSE {"pid", "cwd", "prompt_text"}

\* writer w commits the write of a call that updates a record: its rename
\* replaces a stored record by the record it wrote
CommitsUpdate(w) ==
    /\ proc[w].pc = "rename"
    /\ proc'[w].pc = "ready"
    /\ ~Creates(proc[w].call)
    /\ fs' # fs
    /\ getSession(fs, proc[w].call.id) # NullSession
    /\ getSession(fs', proc[w].call.id) # NullSession

\* C38 (under SpecFS): when updateSession or an event handler commits its
\* write for a session, the fields it does not set hold the values of the
\* record that was stored immediately before the commit, whatever another
\* writer committed between this writer's read and its rename.
C38_UntouchedFieldsKept ==
    [][\A w \in Writers :
         CommitsUpdate(w)
         => \A field \in UntouchedFields(proc[w].call) :
              getSession(fs', proc[w].call.id)[field]
                = getSession(fs, proc[w].call.id)[field]]_vars

\* a run of the SessionStart handler
StartsSession == ev'.kind = "session-start" /\ (ev' # ev \/ fs' # fs)

\* C39 (under Spec): the duplicate cleanup of SessionStart deletes only
\* records of other session ids whose pid is the positive pid of the session
\* being started: the record of that session is there after the event, a
\* record with another pid is never deleted, whatever its terminal target,
\* and nothing is deleted when the agent's pid is unknown (0).
C39_StartDeletesOnlySuperseded ==
    [][StartsSession
       => /\ existsSync(fs', getSessionPath(ev'.id))
          /\ ev'.given.pid = 0 => DOMAIN fs \ DOMAIN fs' = {}
          /\ \A file \in DOMAIN fs \ DOMAIN fs' :
               /\ file # getSessionPath(ev'.id)
               /\ JSONparse(fs[file]) # ParseError
               /\ JSONparse(fs[file]).pid = ev'.given.pid
               /\ ev'.given.pid > 0]_vars

\* a session has started with an unknown pid in the pane of another record
\* whose pid is unknown too, and that record is still there
C39_Witness ==
    /\ ev.kind = "session-start"
    /\ ev.given.pid = 0
    /\ ev.given.tmux # Null
    /\ ev.removed = {}
    /\ Record(ev.id) # NullSession
    /\ \E id \in SessionIds \ {ev.id} :
         /\ Record(id) # NullSession
         /\ Record(id).pid = 0
         /\ Record(id).tmux_target = ev.given.tmux

\* C40 (under SpecFirstRun): a SessionStart event creates the record of its
\* session whether or not ~/.claude-watch and its sessions directory exist
\* when the hook fires: after the run of the hook the record is stored.
C40_StartCreatesRecord ==
    ev.kind = "session-start" => getSession(fs, ev.id) # NullSession

====
